---- MODULE Spec2Model ----
(***************************************************************************)
(* A model of the MCP stdio server of serginator/mcp-server: the start of  *)
(* the process (main, LoadConfig, the three client constructors), the      *)
(* transport loop (MCPServer.Start), the dispatcher (handleRequest,        *)
(* handleToolCall, executeTool), the tool catalog (getAvailableTools) and  *)
(* the JSON encoding of responses, with the upstream services as the       *)
(* environment that answers, or does not answer, each request.             *)
(***************************************************************************)
EXTENDS Integers, Sequences, FiniteSets, TLC

(***************************************************************************)
(* Bounds of the model.                                                    *)
(***************************************************************************)
\* The number of lines the scanner delivers before standard input closes.
MaxLines == 2
\* The same, where every tool of the catalog is called.
MaxToolLines == 1
\* The same, where requests are compared across histories.
MaxHistoryLines == 3
\* The same, where the loop is followed to its end.
MaxLiveLines == 2
\* The same, where the process is followed from its start.
MaxMainLines == 1

(***************************************************************************)
(* The state.                                                              *)
(*   pc        where the process stands: "main" (at LoadConfig),           *)
(*             "clients" (at the client constructors), "fatal" (ended by   *)
(*             log.Fatalf), "panic" (ended by a run-time panic), "scan"    *)
(*             (in Start, at scanner.Scan), "handle" (in the loop body     *)
(*             with a line), "upstream" (in a client method, waiting for   *)
(*             the service), "done" (Start and main have returned)         *)
(*   stdin     the lines the scanner has come to, in order                 *)
(*   closed    standard input has ended                                    *)
(*   scanErr   scanner.Err()                                               *)
(*   stdout    the lines written to standard output                        *)
(*   origin    for each line of stdout, the index in stdin of the line     *)
(*             Start was working on when it was written                    *)
(*   calls     the service-client methods called, each with the index of   *)
(*             its input line and the requests it sent upstream            *)
(*   returned  what executeTool returned, for each tools/call that reached *)
(*             it, with the index of its input line                        *)
(*   stderr    the lines written to standard error, where the log package  *)
(*             and the Go runtime write (the time stamp of a log line is   *)
(*             left out)                                                   *)
(*   environ   what the process finds when it starts: config.yml,          *)
(*             local.yml and the environment variables                     *)
(*   cfg       the Config of LoadConfig                                    *)
(*   clients   the three client handles of the MCPServer                   *)
(***************************************************************************)
VARIABLES pc, stdin, closed, scanErr, stdout, origin, calls, returned,
          stderr, environ, cfg, clients

(***************************************************************************)
(* JSON text values, as they stand on an input line.  An object keeps its  *)
(* members in the order of the text; a number keeps its literal.           *)
(***************************************************************************)
JNull == [t |-> "null"]
JStr(s) == [t |-> "string", s |-> s]
JNum(lit) == [t |-> "number", lit |-> lit]
JBool(b) == [t |-> "bool", b |-> b]
JArr(elems) == [t |-> "array", elems |-> elems]
JObj(members) == [t |-> "object", members |-> members]
Member(k, v) == [k |-> k, v |-> v]

\* What a lookup of a key that the object does not have gives.
Absent == [t |-> "absent"]

\* The value of member k of a JSON object: encoding/json keeps the last one
\* when a key is repeated.
RECURSIVE JGet(_, _)
JGet(members, k) ==
  IF members = <<>> THEN Absent
  ELSE IF members[Len(members)].k = k THEN members[Len(members)].v
  ELSE JGet(SubSeq(members, 1, Len(members) - 1), k)

(***************************************************************************)
(* Go values held in an interface{}: nil, string, float64, bool,           *)
(* []interface{} and map[string]interface{}.                               *)
(***************************************************************************)
Nil == [t |-> "nil"]
GoString(s) == [t |-> "string", s |-> s]
GoFloat64(lit) == [t |-> "float64", lit |-> lit]
GoBool(b) == [t |-> "bool", b |-> b]
GoSlice(elems) == [t |-> "slice", elems |-> elems]
GoMap(members) == [t |-> "map", members |-> members]

\* A number is decoded to a float64 and written back as encoding/json
\* writes that float64.  The numbers of the model are small whole numbers,
\* which come back as they were, and 2^53 + 1, which is no float64 and is
\* rounded to 2^53.
BigLit == "9007199254740993"
RoundedBigLit == "9007199254740992"
Float64Of(lit) == IF lit = BigLit THEN RoundedBigLit ELSE lit

\* int(number), for the numbers the model passes as arguments.
IntOf(lit) ==
  CASE lit = "0" -> 0
    [] lit = "1" -> 1
    [] lit = "2" -> 2
    [] lit = "42" -> 42

\* json.Unmarshal of a JSON value into an interface{}.
RECURSIVE DecodeValue(_)
DecodeValue(v) ==
  CASE v.t = "null" -> Nil
    [] v.t = "string" -> GoString(v.s)
    [] v.t = "number" -> GoFloat64(Float64Of(v.lit))
    [] v.t = "bool" -> GoBool(v.b)
    [] v.t = "array" -> GoSlice([i \in 1..Len(v.elems) |-> DecodeValue(v.elems[i])])
    [] v.t = "object" ->
         GoMap([i \in 1..Len(v.members) |->
                  Member(v.members[i].k, DecodeValue(v.members[i].v))])

\* m[k] on a map[string]interface{}: nil when the key is missing.
MapGet(m, k) ==
  LET v == JGet(m.members, k) IN IF v = Absent THEN Nil ELSE v

(***************************************************************************)
(* MCPRequest and json.Unmarshal of one input line into it.                *)
(***************************************************************************)
ZeroRequest == [JSONRPC |-> "", ID |-> Nil, Method |-> "", Params |-> Nil]

\* A string field: set by a JSON string, left alone by null or by a missing
\* member, a type error for anything else.
StringField(members, k) ==
  LET v == JGet(members, k) IN
  IF v.t = "string" THEN [s |-> v.s, err |-> FALSE]
  ELSE IF v.t \in {"absent", "null"} THEN [s |-> "", err |-> FALSE]
  ELSE [s |-> "", err |-> TRUE]

\* An interface{} field takes any JSON value.
AnyField(members, k) ==
  LET v == JGet(members, k) IN IF v = Absent THEN Nil ELSE DecodeValue(v)

\* Unmarshal with only a syntax error taken for a failure: a member of the
\* wrong type is dropped without an error.
UnmarshalSyntaxOnly(line) ==
  IF line.form # "json" THEN [err |-> TRUE, request |-> ZeroRequest]
  ELSE IF line.top.t # "object" THEN [err |-> FALSE, request |-> ZeroRequest]
  ELSE LET ms == line.top.members
       IN [err |-> FALSE,
           request |-> [JSONRPC |-> StringField(ms, "jsonrpc").s,
                        ID |-> AnyField(ms, "id"),
                        Method |-> StringField(ms, "method").s,
                        Params |-> AnyField(ms, "params")]]

\* json.Unmarshal([]byte(line), &request): a line that is not valid JSON
\* (white space alone is not) is rejected before anything is stored; a member of the wrong type is
\* reported after the other members have been stored.
Unmarshal(line) ==
  IF line.form # "json" THEN [err |-> TRUE, request |-> ZeroRequest]
  ELSE IF line.top.t = "null" THEN [err |-> FALSE, request |-> ZeroRequest]
  ELSE IF line.top.t # "object" THEN [err |-> TRUE, request |-> ZeroRequest]
  ELSE LET ms == line.top.members
           jsonrpc == StringField(ms, "jsonrpc")
           method == StringField(ms, "method")
       IN [err |-> jsonrpc.err \/ method.err,
           request |-> [JSONRPC |-> jsonrpc.s,
                        ID |-> AnyField(ms, "id"),
                        Method |-> method.s,
                        Params |-> AnyField(ms, "params")]]

(***************************************************************************)
(* MCPResponse, MCPError, ToolResult and their json.Marshal.               *)
(***************************************************************************)
NoError == [t |-> "nil"]
MCPError(code, message, data) == [Code |-> code, Message |-> message, Data |-> data]
ToolContent(type, text) == [Type |-> type, Text |-> text]
ToolResult(content, isError) == [Content |-> content, IsError |-> isError]

\* json.Marshal of a value held in an interface{}.
RECURSIVE MarshalValue(_)
MarshalValue(v) ==
  CASE v.t = "nil" -> JNull
    [] v.t = "string" -> JStr(v.s)
    [] v.t = "float64" -> JNum(v.lit)
    [] v.t = "bool" -> JBool(v.b)
    [] v.t = "slice" -> JArr([i \in 1..Len(v.elems) |-> MarshalValue(v.elems[i])])
    [] v.t = "map" ->
         JObj([i \in 1..Len(v.members) |->
                 Member(v.members[i].k, MarshalValue(v.members[i].v))])

\* Data has omitempty.
MarshalError(e) ==
  IF e.Data = Nil THEN [code |-> e.Code, message |-> e.Message]
  ELSE [code |-> e.Code, message |-> e.Message, data |-> MarshalValue(e.Data)]

\* IsError has omitempty: false is left out.
MarshalToolResult(r) ==
  LET content == [i \in 1..Len(r.Content) |->
                    [type |-> r.Content[i].Type, text |-> r.Content[i].Text]]
  IN IF r.IsError THEN [content |-> content, isError |-> TRUE]
     ELSE [content |-> content]

\* A result is a ToolResult or a map that is written member by member.
MarshalResult(r) == IF "IsError" \in DOMAIN r THEN MarshalToolResult(r) ELSE r

\* Marshal with the omitempty of result and error forgotten: both members
\* are always written.
MarshalNoOmitEmpty(r) ==
  [jsonrpc |-> r.JSONRPC, id |-> MarshalValue(r.ID),
   result |-> IF r.Result = Nil THEN JNull ELSE MarshalResult(r.Result),
   error |-> IF r.Error = NoError THEN JNull ELSE MarshalError(r.Error)]

\* json.Marshal of an MCPResponse: result and error have omitempty, so a nil
\* Result and a nil Error are left out.
Marshal(r) ==
  LET id == MarshalValue(r.ID) IN
  IF r.Result # Nil /\ r.Error # NoError
    THEN [jsonrpc |-> r.JSONRPC, id |-> id,
          result |-> MarshalResult(r.Result), error |-> MarshalError(r.Error)]
  ELSE IF r.Result # Nil
    THEN [jsonrpc |-> r.JSONRPC, id |-> id, result |-> MarshalResult(r.Result)]
  ELSE IF r.Error # NoError
    THEN [jsonrpc |-> r.JSONRPC, id |-> id, error |-> MarshalError(r.Error)]
  ELSE [jsonrpc |-> r.JSONRPC, id |-> id]

\* sendJSON: the lines it prints on standard output.  The values the server
\* marshals hold nothing json.Marshal refuses.
sendJSON(v) == <<Marshal(v)>>

sendResponse(id, result) ==
  sendJSON([JSONRPC |-> "2.0", ID |-> id, Result |-> result, Error |-> NoError])

\* sendError with the id dropped.
sendErrorNullId(id, code, message, data) ==
  sendJSON([JSONRPC |-> "2.0", ID |-> Nil, Result |-> Nil,
            Error |-> MCPError(code, message, data)])

sendError(id, code, message, data) ==
  sendJSON([JSONRPC |-> "2.0", ID |-> id, Result |-> Nil,
            Error |-> MCPError(code, message, data)])

\* The error codes the server sends.
ParseError == -32700
MethodNotFound == -32601
InvalidParams == -32602

(***************************************************************************)
(* The tool catalog: each Tool's name and input schema (the properties     *)
(* with their types, and the required list).  The description strings are  *)
(* left out.                                                               *)
(***************************************************************************)
Catalog ==
  <<
    [name |-> "github_get_pull_request",
     properties |-> <<[name |-> "owner", type |-> "string"], [name |-> "repo", type |-> "string"], [name |-> "number", type |-> "integer"]>>,
     required |-> <<"owner", "repo", "number">>],
    [name |-> "github_get_pull_request_diff",
     properties |-> <<[name |-> "owner", type |-> "string"], [name |-> "repo", type |-> "string"], [name |-> "number", type |-> "integer"]>>,
     required |-> <<"owner", "repo", "number">>],
    [name |-> "github_create_issue",
     properties |-> <<[name |-> "owner", type |-> "string"], [name |-> "repo", type |-> "string"], [name |-> "title", type |-> "string"], [name |-> "body", type |-> "string"]>>,
     required |-> <<"owner", "repo", "title">>],
    [name |-> "github_create_pull_request",
     properties |-> <<[name |-> "owner", type |-> "string"], [name |-> "repo", type |-> "string"], [name |-> "title", type |-> "string"], [name |-> "body", type |-> "string"], [name |-> "head", type |-> "string"], [name |-> "base", type |-> "string"]>>,
     required |-> <<"owner", "repo", "title", "head", "base">>],
    [name |-> "github_get_issue",
     properties |-> <<[name |-> "owner", type |-> "string"], [name |-> "repo", type |-> "string"], [name |-> "number", type |-> "integer"]>>,
     required |-> <<"owner", "repo", "number">>],
    [name |-> "github_list_branches",
     properties |-> <<[name |-> "owner", type |-> "string"], [name |-> "repo", type |-> "string"]>>,
     required |-> <<"owner", "repo">>],
    [name |-> "github_list_commits",
     properties |-> <<[name |-> "owner", type |-> "string"], [name |-> "repo", type |-> "string"]>>,
     required |-> <<"owner", "repo">>],
    [name |-> "github_search_repositories",
     properties |-> <<[name |-> "query", type |-> "string"]>>,
     required |-> <<"query">>],
    [name |-> "github_search_issues",
     properties |-> <<[name |-> "query", type |-> "string"]>>,
     required |-> <<"query">>],
    [name |-> "github_get_workflows",
     properties |-> <<[name |-> "owner", type |-> "string"], [name |-> "repo", type |-> "string"]>>,
     required |-> <<"owner", "repo">>],
    [name |-> "github_run_workflow",
     properties |-> <<[name |-> "owner", type |-> "string"], [name |-> "repo", type |-> "string"], [name |-> "workflowID", type |-> "string"], [name |-> "ref", type |-> "string"]>>,
     required |-> <<"owner", "repo", "workflowID", "ref">>],
    [name |-> "github_add_comment",
     properties |-> <<[name |-> "owner", type |-> "string"], [name |-> "repo", type |-> "string"], [name |-> "number", type |-> "integer"], [name |-> "body", type |-> "string"]>>,
     required |-> <<"owner", "repo", "number", "body">>],
    [name |-> "github_get_comments",
     properties |-> <<[name |-> "owner", type |-> "string"], [name |-> "repo", type |-> "string"], [name |-> "number", type |-> "integer"]>>,
     required |-> <<"owner", "repo", "number">>],
    [name |-> "github_assign_copilot",
     properties |-> <<[name |-> "owner", type |-> "string"], [name |-> "repo", type |-> "string"], [name |-> "number", type |-> "integer"], [name |-> "assignees", type |-> "array"]>>,
     required |-> <<"owner", "repo", "number", "assignees">>],
    [name |-> "github_create_branch",
     properties |-> <<[name |-> "owner", type |-> "string"], [name |-> "repo", type |-> "string"], [name |-> "branchName", type |-> "string"], [name |-> "sha", type |-> "string"]>>,
     required |-> <<"owner", "repo", "branchName", "sha">>],
    [name |-> "github_create_repository",
     properties |-> <<[name |-> "name", type |-> "string"], [name |-> "description", type |-> "string"], [name |-> "private", type |-> "boolean"]>>,
     required |-> <<"name">>],
    [name |-> "github_get_commit",
     properties |-> <<[name |-> "owner", type |-> "string"], [name |-> "repo", type |-> "string"], [name |-> "sha", type |-> "string"]>>,
     required |-> <<"owner", "repo", "sha">>],
    [name |-> "github_get_release_by_tag",
     properties |-> <<[name |-> "owner", type |-> "string"], [name |-> "repo", type |-> "string"], [name |-> "tagName", type |-> "string"]>>,
     required |-> <<"owner", "repo", "tagName">>],
    [name |-> "github_get_tag",
     properties |-> <<[name |-> "owner", type |-> "string"], [name |-> "repo", type |-> "string"], [name |-> "tagName", type |-> "string"]>>,
     required |-> <<"owner", "repo", "tagName">>],
    [name |-> "github_search_code",
     properties |-> <<[name |-> "query", type |-> "string"]>>,
     required |-> <<"query">>],
    [name |-> "github_search_pull_requests",
     properties |-> <<[name |-> "query", type |-> "string"]>>,
     required |-> <<"query">>],
    [name |-> "jira_get_ticket",
     properties |-> <<[name |-> "ticketID", type |-> "string"]>>,
     required |-> <<"ticketID">>],
    [name |-> "jira_search_tickets",
     properties |-> <<[name |-> "jql", type |-> "string"]>>,
     required |-> <<"jql">>],
    [name |-> "jira_create_ticket",
     properties |-> <<[name |-> "projectKey", type |-> "string"], [name |-> "summary", type |-> "string"], [name |-> "description", type |-> "string"]>>,
     required |-> <<"projectKey", "summary">>],
    [name |-> "notion_search_pages",
     properties |-> <<[name |-> "title", type |-> "string"]>>,
     required |-> <<"title">>],
    [name |-> "notion_get_page",
     properties |-> <<[name |-> "url", type |-> "string"]>>,
     required |-> <<"url">>],
    [name |-> "notion_get_database",
     properties |-> <<[name |-> "databaseID", type |-> "string"]>>,
     required |-> <<"databaseID">>],
    [name |-> "notion_create_page",
     properties |-> <<[name |-> "parentID", type |-> "string"], [name |-> "title", type |-> "string"], [name |-> "content", type |-> "string"]>>,
     required |-> <<"parentID", "title">>],
    [name |-> "notion_create_database",
     properties |-> <<[name |-> "parentPageID", type |-> "string"], [name |-> "title", type |-> "string"]>>,
     required |-> <<"parentPageID", "title">>],
    [name |-> "notion_update_page",
     properties |-> <<[name |-> "pageID", type |-> "string"], [name |-> "title", type |-> "string"], [name |-> "content", type |-> "string"]>>,
     required |-> <<"pageID">>],
    [name |-> "notion_update_database",
     properties |-> <<[name |-> "databaseID", type |-> "string"], [name |-> "title", type |-> "string"]>>,
     required |-> <<"databaseID", "title">>]
  >>

\* getAvailableTools handing out one shared catalog that answering consumes:
\* its first tool is gone once a response has been written.
getAvailableToolsConsumed == IF stdout = <<>> THEN Catalog ELSE Tail(Catalog)

\* getAvailableTools with the last tool declared under the name of the
\* first.
getAvailableToolsRepeatedName ==
  [i \in 1..Len(Catalog) |->
     IF i = Len(Catalog) THEN [Catalog[i] EXCEPT !.name = Catalog[1].name]
     ELSE Catalog[i]]

\* getAvailableTools declaring the branch name of github_create_branch
\* under another property name than its required list and its handler use.
getAvailableToolsRenamedProperty ==
  [i \in 1..Len(Catalog) |->
     IF Catalog[i].name = "github_create_branch"
       THEN [Catalog[i] EXCEPT !.properties[3].name = "branch"]
       ELSE Catalog[i]]

\* getAvailableTools builds the catalog anew at each call.
getAvailableTools == Catalog

ToolNames == {getAvailableTools[i].name : i \in 1..Len(getAvailableTools)}

(***************************************************************************)
(* executeTool: the case of each tool name, as the client and method it    *)
(* calls and, for each parameter in call order, the argument read, the     *)
(* type asserted and the conversion applied.                               *)
(***************************************************************************)
NoCase == [client |-> "", method |-> "", params |-> <<>>]

ToolCase(name) ==
  CASE
         name = "github_get_pull_request" ->
         [client |-> "Github", method |-> "GetPullRequest",
          params |-> <<[key |-> "owner", assert |-> "string", conv |-> "none"],
                       [key |-> "repo", assert |-> "string", conv |-> "none"],
                       [key |-> "number", assert |-> "float64", conv |-> "int"]>>]
  [] name = "github_get_pull_request_diff" ->
         [client |-> "Github", method |-> "GetPullRequestDiff",
          params |-> <<[key |-> "owner", assert |-> "string", conv |-> "none"],
                       [key |-> "repo", assert |-> "string", conv |-> "none"],
                       [key |-> "number", assert |-> "float64", conv |-> "int"]>>]
  [] name = "github_create_issue" ->
         [client |-> "Github", method |-> "CreateIssue",
          params |-> <<[key |-> "owner", assert |-> "string", conv |-> "none"],
                       [key |-> "repo", assert |-> "string", conv |-> "none"],
                       [key |-> "title", assert |-> "string", conv |-> "none"],
                       [key |-> "body", assert |-> "string", conv |-> "none"]>>]
  [] name = "github_create_pull_request" ->
         [client |-> "Github", method |-> "CreatePullRequest",
          params |-> <<[key |-> "owner", assert |-> "string", conv |-> "none"],
                       [key |-> "repo", assert |-> "string", conv |-> "none"],
                       [key |-> "title", assert |-> "string", conv |-> "none"],
                       [key |-> "body", assert |-> "string", conv |-> "none"],
                       [key |-> "head", assert |-> "string", conv |-> "none"],
                       [key |-> "base", assert |-> "string", conv |-> "none"]>>]
  [] name = "github_get_issue" ->
         [client |-> "Github", method |-> "GetIssue",
          params |-> <<[key |-> "owner", assert |-> "string", conv |-> "none"],
                       [key |-> "repo", assert |-> "string", conv |-> "none"],
                       [key |-> "number", assert |-> "float64", conv |-> "int"]>>]
  [] name = "github_list_branches" ->
         [client |-> "Github", method |-> "ListBranches",
          params |-> <<[key |-> "owner", assert |-> "string", conv |-> "none"],
                       [key |-> "repo", assert |-> "string", conv |-> "none"]>>]
  [] name = "github_list_commits" ->
         [client |-> "Github", method |-> "ListCommits",
          params |-> <<[key |-> "owner", assert |-> "string", conv |-> "none"],
                       [key |-> "repo", assert |-> "string", conv |-> "none"]>>]
  [] name = "github_search_repositories" ->
         [client |-> "Github", method |-> "SearchRepositories",
          params |-> <<[key |-> "query", assert |-> "string", conv |-> "none"]>>]
  [] name = "github_search_issues" ->
         [client |-> "Github", method |-> "SearchIssues",
          params |-> <<[key |-> "query", assert |-> "string", conv |-> "none"]>>]
  [] name = "github_get_workflows" ->
         [client |-> "Github", method |-> "GetWorkflows",
          params |-> <<[key |-> "owner", assert |-> "string", conv |-> "none"],
                       [key |-> "repo", assert |-> "string", conv |-> "none"]>>]
  [] name = "github_run_workflow" ->
         [client |-> "Github", method |-> "RunWorkflow",
          params |-> <<[key |-> "owner", assert |-> "string", conv |-> "none"],
                       [key |-> "repo", assert |-> "string", conv |-> "none"],
                       [key |-> "workflowID", assert |-> "string", conv |-> "none"],
                       [key |-> "ref", assert |-> "string", conv |-> "none"]>>]
  [] name = "github_add_comment" ->
         [client |-> "Github", method |-> "AddComment",
          params |-> <<[key |-> "owner", assert |-> "string", conv |-> "none"],
                       [key |-> "repo", assert |-> "string", conv |-> "none"],
                       [key |-> "number", assert |-> "float64", conv |-> "int"],
                       [key |-> "body", assert |-> "string", conv |-> "none"]>>]
  [] name = "github_get_comments" ->
         [client |-> "Github", method |-> "GetComments",
          params |-> <<[key |-> "owner", assert |-> "string", conv |-> "none"],
                       [key |-> "repo", assert |-> "string", conv |-> "none"],
                       [key |-> "number", assert |-> "float64", conv |-> "int"]>>]
  [] name = "github_assign_copilot" ->
         [client |-> "Github", method |-> "AssignCopilot",
          params |-> <<[key |-> "owner", assert |-> "string", conv |-> "none"],
                       [key |-> "repo", assert |-> "string", conv |-> "none"],
                       [key |-> "number", assert |-> "float64", conv |-> "int"],
                       [key |-> "assignees", assert |-> "array", conv |-> "strings"]>>]
  [] name = "github_create_branch" ->
         [client |-> "Github", method |-> "CreateBranch",
          params |-> <<[key |-> "owner", assert |-> "string", conv |-> "none"],
                       [key |-> "repo", assert |-> "string", conv |-> "none"],
                       [key |-> "branchName", assert |-> "string", conv |-> "none"],
                       [key |-> "sha", assert |-> "string", conv |-> "none"]>>]
  [] name = "github_create_repository" ->
         [client |-> "Github", method |-> "CreateRepository",
          params |-> <<[key |-> "name", assert |-> "string", conv |-> "none"],
                       [key |-> "description", assert |-> "string", conv |-> "none"],
                       [key |-> "private", assert |-> "bool", conv |-> "none"]>>]
  [] name = "github_get_commit" ->
         [client |-> "Github", method |-> "GetCommit",
          params |-> <<[key |-> "owner", assert |-> "string", conv |-> "none"],
                       [key |-> "repo", assert |-> "string", conv |-> "none"],
                       [key |-> "sha", assert |-> "string", conv |-> "none"]>>]
  [] name = "github_get_release_by_tag" ->
         [client |-> "Github", method |-> "GetReleaseByTag",
          params |-> <<[key |-> "owner", assert |-> "string", conv |-> "none"],
                       [key |-> "repo", assert |-> "string", conv |-> "none"],
                       [key |-> "tagName", assert |-> "string", conv |-> "none"]>>]
  [] name = "github_get_tag" ->
         [client |-> "Github", method |-> "GetTag",
          params |-> <<[key |-> "owner", assert |-> "string", conv |-> "none"],
                       [key |-> "repo", assert |-> "string", conv |-> "none"],
                       [key |-> "tagName", assert |-> "string", conv |-> "none"]>>]
  [] name = "github_search_code" ->
         [client |-> "Github", method |-> "SearchCode",
          params |-> <<[key |-> "query", assert |-> "string", conv |-> "none"]>>]
  [] name = "github_search_pull_requests" ->
         [client |-> "Github", method |-> "SearchPullRequests",
          params |-> <<[key |-> "query", assert |-> "string", conv |-> "none"]>>]
  [] name = "jira_get_ticket" ->
         [client |-> "Jira", method |-> "GetTicketByID",
          params |-> <<[key |-> "ticketID", assert |-> "string", conv |-> "none"]>>]
  [] name = "jira_search_tickets" ->
         [client |-> "Jira", method |-> "SearchTickets",
          params |-> <<[key |-> "jql", assert |-> "string", conv |-> "none"]>>]
  [] name = "jira_create_ticket" ->
         [client |-> "Jira", method |-> "CreateTicket",
          params |-> <<[key |-> "projectKey", assert |-> "string", conv |-> "none"],
                       [key |-> "summary", assert |-> "string", conv |-> "none"],
                       [key |-> "description", assert |-> "string", conv |-> "none"]>>]
  [] name = "notion_search_pages" ->
         [client |-> "Notion", method |-> "SearchPagesByTitle",
          params |-> <<[key |-> "title", assert |-> "string", conv |-> "none"]>>]
  [] name = "notion_get_page" ->
         [client |-> "Notion", method |-> "GetPageByURL",
          params |-> <<[key |-> "url", assert |-> "string", conv |-> "none"]>>]
  [] name = "notion_get_database" ->
         [client |-> "Notion", method |-> "GetDatabase",
          params |-> <<[key |-> "databaseID", assert |-> "string", conv |-> "none"]>>]
  [] name = "notion_create_page" ->
         [client |-> "Notion", method |-> "CreatePage",
          params |-> <<[key |-> "parentID", assert |-> "string", conv |-> "none"],
                       [key |-> "title", assert |-> "string", conv |-> "none"],
                       [key |-> "content", assert |-> "string", conv |-> "none"]>>]
  [] name = "notion_create_database" ->
         [client |-> "Notion", method |-> "CreateDatabase",
          params |-> <<[key |-> "parentPageID", assert |-> "string", conv |-> "none"],
                       [key |-> "title", assert |-> "string", conv |-> "none"]>>]
  [] name = "notion_update_page" ->
         [client |-> "Notion", method |-> "UpdatePage",
          params |-> <<[key |-> "pageID", assert |-> "string", conv |-> "none"],
                       [key |-> "title", assert |-> "string", conv |-> "none"],
                       [key |-> "content", assert |-> "string", conv |-> "none"]>>]
  [] name = "notion_update_database" ->
         [client |-> "Notion", method |-> "UpdateDatabase",
          params |-> <<[key |-> "databaseID", assert |-> "string", conv |-> "none"],
                       [key |-> "title", assert |-> "string", conv |-> "none"]>>]
  [] OTHER -> NoCase

\* assignee.(string) for each element: "" for one that is no string.
AssigneeStrs(elems) ==
  [i \in 1..Len(elems) |-> IF elems[i].t = "string" THEN elems[i].s ELSE ""]

\* v, _ := args[key].(T): the zero value of T when the assertion fails.
\* Arguments are passed on as [s], [n], [b] or [list].
Coerce(args, p) ==
  LET v == MapGet(args, p.key) IN
  CASE p.assert = "string" -> [s |-> IF v.t = "string" THEN v.s ELSE ""]
    [] p.assert = "float64" -> [n |-> IF v.t = "float64" THEN IntOf(v.lit) ELSE 0]
    [] p.assert = "bool" -> [b |-> IF v.t = "bool" THEN v.b ELSE FALSE]
    [] p.assert = "array" -> [list |-> IF v.t = "slice" THEN AssigneeStrs(v.elems) ELSE <<>>]

NoCall == [client |-> "", method |-> "", args |-> <<>>]

\* A Go error value: nil, or an error with its message.
NilErr == [t |-> "nil"]
Errorf(msg) == [t |-> "error", msg |-> msg]

\* executeTool with the tool name left out of the error of the default case.
executeToolNoName(name, args) ==
  LET c == ToolCase(name) IN
  IF c = NoCase
    THEN [call |-> NoCall, err |-> Errorf("unknown tool")]
    ELSE [call |-> [client |-> c.client, method |-> c.method,
                    args |-> [i \in 1..Len(c.params) |-> Coerce(args, c.params[i])]],
          err |-> NilErr]

\* executeTool refusing a call that leaves an argument out.
executeToolRequiresArguments(name, args) ==
  LET c == ToolCase(name) IN
  IF c = NoCase
    THEN [call |-> NoCall, err |-> Errorf("unknown tool: " \o name)]
  ELSE IF \E i \in 1..Len(c.params) : MapGet(args, c.params[i].key) = Nil
    THEN [call |-> NoCall, err |-> Errorf("missing argument")]
  ELSE [call |-> [client |-> c.client, method |-> c.method,
                  args |-> [i \in 1..Len(c.params) |-> Coerce(args, c.params[i])]],
        err |-> NilErr]

\* executeTool with the search for pull requests sent to the case of the
\* search for issues.
executeToolSharedSearch(name, args) ==
  LET c == ToolCase(IF name = "github_search_pull_requests"
                      THEN "github_search_issues" ELSE name) IN
  IF c = NoCase
    THEN [call |-> NoCall, err |-> Errorf("unknown tool: " \o name)]
    ELSE [call |-> [client |-> c.client, method |-> c.method,
                    args |-> [i \in 1..Len(c.params) |-> Coerce(args, c.params[i])]],
          err |-> NilErr]

\* executeTool without the case of github_get_tag.
executeToolNoTagCase(name, args) ==
  LET c == IF name = "github_get_tag" THEN NoCase ELSE ToolCase(name) IN
  IF c = NoCase
    THEN [call |-> NoCall, err |-> Errorf("unknown tool: " \o name)]
    ELSE [call |-> [client |-> c.client, method |-> c.method,
                    args |-> [i \in 1..Len(c.params) |-> Coerce(args, c.params[i])]],
          err |-> NilErr]

\* executeTool up to the call it makes: the call, or the error of the
\* default case.
executeTool(name, args) ==
  LET c == ToolCase(name) IN
  IF c = NoCase
    THEN [call |-> NoCall, err |-> Errorf("unknown tool: " \o name)]
    ELSE [call |-> [client |-> c.client, method |-> c.method,
                    args |-> [i \in 1..Len(c.params) |-> Coerce(args, c.params[i])]],
          err |-> NilErr]

(***************************************************************************)
(* The configuration.  A yaml file is absent, malformed, or a document     *)
(* that sets some of the keys; the environment gives some variables a      *)
(* value, which may be the empty string.                                   *)
(***************************************************************************)
Fields == {"NotionToken", "GithubToken", "JiraToken", "JiraURL", "JiraUsername"}

\* The yaml tag of each field of Config.
YamlKey ==
  [NotionToken |-> "notion_token", GithubToken |-> "github_token",
   JiraToken |-> "jira_token", JiraURL |-> "jira_url",
   JiraUsername |-> "jira_username"]

\* The environment variable LoadConfig reads for each field.
EnvVar ==
  [NotionToken |-> "NOTION_TOKEN", GithubToken |-> "GITHUB_TOKEN",
   JiraToken |-> "JIRA_TOKEN", JiraURL |-> "JIRA_URL",
   JiraUsername |-> "JIRA_USERNAME"]

\* var cfg Config
ZeroConfig == [f \in Fields |-> ""]

\* yaml.Unmarshal(data, &cfg): the keys the document sets overwrite their
\* fields, the other fields keep what they hold.
YamlUnmarshal(file, c) ==
  IF file.state = "malformed"
    THEN [cfg |-> c, err |-> Errorf("yaml: unmarshal errors")]
    ELSE [cfg |-> [f \in Fields |->
                     IF YamlKey[f] \in DOMAIN file.doc
                       THEN file.doc[YamlKey[f]] ELSE c[f]],
          err |-> NilErr]

\* os.Getenv(name): empty for a variable that is not set.
Getenv(env, name) == IF name \in DOMAIN env THEN env[name] ELSE ""

\* LoadConfig with local.yml read into a Config of its own, which replaces
\* the one of the base file.
LoadConfigLocalReplaces(e) ==
  LET base == IF e.base.state = "absent"
                THEN [cfg |-> ZeroConfig, err |-> NilErr]
                ELSE YamlUnmarshal(e.base, ZeroConfig)
      local == IF e.local.state = "absent"
                 THEN base
                 ELSE YamlUnmarshal(e.local, ZeroConfig)
      env == [f \in Fields |->
                IF Getenv(e.env, EnvVar[f]) # ""
                  THEN Getenv(e.env, EnvVar[f]) ELSE local.cfg[f]]
  IN IF base.err # NilErr THEN [cfg |-> Nil, err |-> base.err]
     ELSE IF local.err # NilErr THEN [cfg |-> Nil, err |-> local.err]
     ELSE [cfg |-> env, err |-> NilErr]

\* LoadConfig("config.yml"): the base file, then local.yml, then the
\* environment, each over what the one before left; a file that cannot be
\* read is passed over, a file that cannot be parsed is an error.
LoadConfig(e) ==
  LET base == IF e.base.state = "absent"
                THEN [cfg |-> ZeroConfig, err |-> NilErr]
                ELSE YamlUnmarshal(e.base, ZeroConfig)
      local == IF e.local.state = "absent"
                 THEN base
                 ELSE YamlUnmarshal(e.local, base.cfg)
      env == [f \in Fields |->
                IF Getenv(e.env, EnvVar[f]) # ""
                  THEN Getenv(e.env, EnvVar[f]) ELSE local.cfg[f]]
  IN IF base.err # NilErr THEN [cfg |-> Nil, err |-> base.err]
     ELSE IF local.err # NilErr THEN [cfg |-> Nil, err |-> local.err]
     ELSE [cfg |-> env, err |-> NilErr]

(***************************************************************************)
(* The client handles.  Timeout is the Timeout of the handle's             *)
(* http.Client in seconds, 0 for a client that has none.                   *)
(***************************************************************************)
JiraTimeoutSeconds == 30

\* github.NewClient(nil).WithAuthToken(token): no check of the token, an
\* http.Client without Timeout.
NewGithubClient(token) == [token |-> token, Timeout |-> 0]

\* notion.NewClient(token): no check of the token, http.DefaultClient.
NewNotionClient(token) == [token |-> token, Timeout |-> 0]

\* jiraURL[len(jiraURL)-1] == '/', for the URLs of the model.
EndsWithSlash(jiraURL) ==
  CASE jiraURL = "https://jira.example/" -> TRUE
    [] jiraURL = "https://jira.example" -> FALSE

\* NewJiraClient without the check of the token.
NewJiraClientTokenUnchecked(jiraURL, username, token) ==
  IF username = ""
    THEN [client |-> Nil, panic |-> FALSE,
          err |-> Errorf("username/email is required for Jira authentication")]
  ELSE IF jiraURL = ""
    THEN [client |-> Nil, panic |-> TRUE, err |-> NilErr]
  ELSE [client |-> [baseURL |-> IF EndsWithSlash(jiraURL) THEN jiraURL
                                ELSE jiraURL \o "/",
                    username |-> username, token |-> token,
                    Timeout |-> JiraTimeoutSeconds],
        panic |-> FALSE, err |-> NilErr]

\* NewJiraClient: the handle or the error; panic when the index
\* len(jiraURL)-1 is out of range.
NewJiraClient(jiraURL, username, token) ==
  IF username = ""
    THEN [client |-> Nil, panic |-> FALSE,
          err |-> Errorf("username/email is required for Jira authentication")]
  ELSE IF token = ""
    THEN [client |-> Nil, panic |-> FALSE,
          err |-> Errorf("API token is required for Jira authentication")]
  ELSE IF jiraURL = ""
    THEN [client |-> Nil, panic |-> TRUE, err |-> NilErr]
  ELSE [client |-> [baseURL |-> IF EndsWithSlash(jiraURL) THEN jiraURL
                                ELSE jiraURL \o "/",
                    username |-> username, token |-> token,
                    Timeout |-> JiraTimeoutSeconds],
        panic |-> FALSE, err |-> NilErr]

\* &server.MCPServer{Github: ..., Jira: ..., Notion: ...}
MCPServer(github, jira, notion) ==
  [Github |-> github, Jira |-> jira, Notion |-> notion]

(***************************************************************************)
(* The service clients.  A method either fails its own validation before   *)
(* any request is sent, or sends its request upstream and returns what the *)
(* upstream service answers.                                               *)
(***************************************************************************)
\* Page URLs url.Parse rejects.
BadURLs == {"%zz"}

\* extractPageIDFromURL(pageURL): its error.
extractPageIDFromURL(pageURL) ==
  IF pageURL \in BadURLs
    THEN Errorf("parse \"" \o pageURL \o "\": invalid URL escape \"" \o pageURL \o "\"")
    ELSE NilErr

\* ClientValidation without the check of the ticket ID.
ClientValidationNoTicketCheck(call) ==
  CASE call.method = "SearchTickets" /\ call.args[1].s = "" ->
         Errorf("JQL query cannot be empty")
    [] call.method = "CreateTicket" /\ call.args[1].s = "" ->
         Errorf("project key cannot be empty")
    [] call.method = "CreateTicket" /\ call.args[1].s # "" /\ call.args[2].s = "" ->
         Errorf("summary cannot be empty")
    [] call.method = "GetPageByURL" -> extractPageIDFromURL(call.args[1].s)
    [] OTHER -> NilErr

\* ClientValidation with CreateTicket checking the summary before the
\* project key.
ClientValidationSummaryFirst(call) ==
  CASE call.method = "GetTicketByID" /\ call.args[1].s = "" ->
         Errorf("ticket ID cannot be empty")
    [] call.method = "SearchTickets" /\ call.args[1].s = "" ->
         Errorf("JQL query cannot be empty")
    [] call.method = "CreateTicket" /\ call.args[2].s = "" ->
         Errorf("summary cannot be empty")
    [] call.method = "CreateTicket" /\ call.args[2].s # "" /\ call.args[1].s = "" ->
         Errorf("project key cannot be empty")
    [] call.method = "GetPageByURL" -> extractPageIDFromURL(call.args[1].s)
    [] OTHER -> NilErr

\* The error a method returns before it touches the network.
ClientValidation(call) ==
  CASE call.method = "GetTicketByID" /\ call.args[1].s = "" ->
         Errorf("ticket ID cannot be empty")
    [] call.method = "SearchTickets" /\ call.args[1].s = "" ->
         Errorf("JQL query cannot be empty")
    [] call.method = "CreateTicket" /\ call.args[1].s = "" ->
         Errorf("project key cannot be empty")
    [] call.method = "CreateTicket" /\ call.args[1].s # "" /\ call.args[2].s = "" ->
         Errorf("summary cannot be empty")
    [] call.method = "GetPageByURL" -> extractPageIDFromURL(call.args[1].s)
    [] OTHER -> NilErr

\* The request a method sends once its validation has passed: the call of
\* the client library, or of makeRequest, it makes.
Operation(method) ==
  CASE method = "GetPullRequest" -> "PullRequests.Get"
    [] method = "GetPullRequestDiff" -> "PullRequests.GetRaw"
    [] method = "CreateIssue" -> "Issues.Create"
    [] method = "CreatePullRequest" -> "PullRequests.Create"
    [] method = "GetComments" -> "Issues.ListComments"
    [] method = "AddComment" -> "Issues.CreateComment"
    [] method = "AssignCopilot" -> "Issues.AddAssignees"
    [] method = "CreateBranch" -> "Git.CreateRef"
    [] method = "CreateRepository" -> "Repositories.Create"
    [] method = "GetCommit" -> "Git.GetCommit"
    [] method = "GetIssue" -> "Issues.Get"
    [] method = "GetReleaseByTag" -> "Repositories.GetReleaseByTag"
    [] method = "GetTag" -> "Repositories.ListTags"
    [] method = "ListBranches" -> "Repositories.ListBranches"
    [] method = "ListCommits" -> "Repositories.ListCommits"
    [] method = "GetWorkflows" -> "Actions.ListWorkflows"
    [] method = "RunWorkflow" -> "Actions.CreateWorkflowDispatchEventByFileName"
    [] method = "SearchCode" -> "Search.Code"
    [] method = "SearchIssues" -> "Search.Issues"
    [] method = "SearchPullRequests" -> "Search.Issues"
    [] method = "SearchRepositories" -> "Search.Repositories"
    [] method = "GetTicketByID" -> "GET issue/"
    [] method = "SearchTickets" -> "POST search"
    [] method = "CreateTicket" -> "POST issue"
    [] method = "SearchPagesByTitle" -> "Search"
    [] method = "GetPageByURL" -> "FindPageByID"
    [] method = "GetDatabase" -> "FindDatabaseByID"
    [] method = "CreatePage" -> "CreatePage"
    [] method = "CreateDatabase" -> "CreateDatabase"
    [] method = "UpdatePage" -> "UpdatePage"
    [] method = "UpdateDatabase" -> "UpdateDatabase"

\* UpstreamRequests with the list methods asking for a second page.
UpstreamRequestsPaged(call) ==
  IF ClientValidation(call) # NilErr THEN <<>>
  ELSE IF call.method \in {"GetTag", "ListBranches", "ListCommits", "GetComments"}
    THEN <<Operation(call.method), Operation(call.method)>>
  ELSE <<Operation(call.method)>>

\* The requests a call of a method sends upstream.
UpstreamRequests(call) ==
  IF ClientValidation(call) # NilErr THEN <<>> ELSE <<Operation(call.method)>>

\* extractPageIDFromURL(pageURL): the page ID, what follows the last "-" of
\* the path without its leading "/", for the URLs of the model.
PageIDOf(pageURL) ==
  CASE pageURL = "https://www.notion.so/Page-abc123" -> "abc123"
    [] pageURL = "x" -> "x"
    [] pageURL = "" -> ""

\* Forwarded with UpdatePage putting the new title and content in its
\* request.
ForwardedEveryArgument(call) ==
  IF ClientValidation(call) # NilErr THEN <<>>
  ELSE CASE call.method = "GetTag" -> [p \in {1, 2} |-> call.args[p]]
         [] call.method = "SearchPullRequests" ->
              <<[s |-> call.args[1].s \o " is:pr"]>>
         [] call.method = "CreateBranch" ->
              [call.args EXCEPT ![3] = [s |-> "refs/heads/" \o call.args[3].s]]
         [] call.method = "GetPageByURL" -> <<[s |-> PageIDOf(call.args[1].s)]>>
         [] call.method \in {"CreateTicket", "CreatePage"} ->
              [p \in (IF call.args[3].s = "" THEN {1, 2} ELSE {1, 2, 3}) |->
                 call.args[p]]
         [] OTHER -> call.args

\* What the request of a call carries of the call's arguments, by the place
\* of the parameter: the argument itself, but the branch name as a ref, the
\* search for pull requests with " is:pr", the page ID of a page URL; not
\* the tag name (GetTag filters the list itself), not an empty description
\* or content, and of UpdatePage the page ID alone (its UpdatePageParams
\* are left empty).
Forwarded(call) ==
  IF ClientValidation(call) # NilErr THEN <<>>
  ELSE CASE call.method = "GetTag" -> [p \in {1, 2} |-> call.args[p]]
         [] call.method = "SearchPullRequests" ->
              <<[s |-> call.args[1].s \o " is:pr"]>>
         [] call.method = "CreateBranch" ->
              [call.args EXCEPT ![3] = [s |-> "refs/heads/" \o call.args[3].s]]
         [] call.method = "GetPageByURL" -> <<[s |-> PageIDOf(call.args[1].s)]>>
         [] call.method \in {"CreateTicket", "CreatePage"} ->
              [p \in (IF call.args[3].s = "" THEN {1, 2} ELSE {1, 2, 3}) |->
                 call.args[p]]
         [] call.method = "UpdatePage" -> <<call.args[1]>>
         [] OTHER -> call.args

\* What a client method returns when its http.Client gives the request up.
TimeoutErr == Errorf("context deadline exceeded (Client.Timeout exceeded while awaiting headers)")

\* What a client method returns once the upstream service has answered:
\* a text, or an error.
UpstreamOutcomes ==
  { [result |-> "", err |-> Errorf("upstream request failed")],
    [result |-> "upstream data", err |-> NilErr],
    [result |-> "", err |-> NilErr] }

(***************************************************************************)
(* The dispatcher.                                                         *)
(***************************************************************************)
InitializeResult ==
  [protocolVersion |-> "2024-11-05",
   capabilities |-> [tools |-> <<>>],
   serverInfo |-> [name |-> "mcp-integration-server", version |-> "1.0.0"]]

\* handleInitialize answering with the protocol version the client asks for.
handleInitializeRequestedVersion(request) ==
  LET asked == MapGet(request.Params, "protocolVersion") IN
  sendResponse(request.ID,
               IF request.Params.t = "map" /\ asked.t = "string"
                 THEN [InitializeResult EXCEPT !.protocolVersion = asked.s]
                 ELSE InitializeResult)

handleInitialize(request) == sendResponse(request.ID, InitializeResult)

handleToolsList(request) ==
  sendResponse(request.ID, [tools |-> getAvailableTools])

\* What executeTool returned for the line being worked on.
Returned(result, err) == [line |-> Len(stdin), result |-> result, err |-> err]

\* toolCallResponse with the IsError flag forgotten.
toolCallResponseUnflagged(id, result, err) ==
  IF err # NilErr
    THEN sendResponse(id, ToolResult(<<ToolContent("text", "Error: " \o err.msg)>>, FALSE))
    ELSE sendResponse(id, ToolResult(<<ToolContent("text", result)>>, FALSE))

\* toolCallResponse with a tool's failure sent as an internal error.
toolCallResponseInternalError(id, result, err) ==
  IF err # NilErr
    THEN sendError(id, -32603, err.msg, Nil)
    ELSE sendResponse(id, ToolResult(<<ToolContent("text", result)>>, FALSE))

\* handleToolCall after executeTool has returned (result, err).
toolCallResponse(id, result, err) ==
  IF err # NilErr
    THEN sendResponse(id, ToolResult(<<ToolContent("text", "Error: " \o err.msg)>>, TRUE))
    ELSE sendResponse(id, ToolResult(<<ToolContent("text", result)>>, FALSE))

\* handleToolCall with the check of the name left out: a missing name is
\* the empty name.
handleToolCallNoNameCheck(request) ==
  LET params == request.Params IN
  IF params.t # "map"
    THEN [out |-> sendError(request.ID, InvalidParams, "Invalid params", Nil),
          call |-> NoCall, ret |-> <<>>]
  ELSE LET name == MapGet(params, "name")
           given == MapGet(params, "arguments")
           arguments == IF given.t = "map" THEN given ELSE GoMap(<<>>)
           e == executeTool(IF name.t = "string" THEN name.s ELSE "", arguments)
       IN IF e.call = NoCall
            THEN [out |-> toolCallResponse(request.ID, "", e.err), call |-> NoCall,
                  ret |-> <<Returned("", e.err)>>]
            ELSE [out |-> <<>>, call |-> e.call, ret |-> <<>>]

\* handleToolCall with one message for both failures of its checks.
handleToolCallOneMessage(request) ==
  LET params == request.Params IN
  IF params.t # "map"
    THEN [out |-> sendError(request.ID, InvalidParams, "Invalid params", Nil),
          call |-> NoCall, ret |-> <<>>]
  ELSE LET name == MapGet(params, "name") IN
  IF name.t # "string"
    THEN [out |-> sendError(request.ID, InvalidParams, "Invalid params", Nil),
          call |-> NoCall, ret |-> <<>>]
  ELSE LET given == MapGet(params, "arguments")
           arguments == IF given.t = "map" THEN given ELSE GoMap(<<>>)
           e == executeTool(name.s, arguments)
       IN IF e.call = NoCall
            THEN [out |-> toolCallResponse(request.ID, "", e.err), call |-> NoCall,
                  ret |-> <<Returned("", e.err)>>]
            ELSE [out |-> <<>>, call |-> e.call, ret |-> <<>>]

\* handleToolCall refusing arguments that are no object.
handleToolCallArgumentsChecked(request) ==
  LET params == request.Params IN
  IF params.t # "map"
    THEN [out |-> sendError(request.ID, InvalidParams, "Invalid params", Nil),
          call |-> NoCall, ret |-> <<>>]
  ELSE LET name == MapGet(params, "name") IN
  IF name.t # "string"
    THEN [out |-> sendError(request.ID, InvalidParams, "Missing tool name", Nil),
          call |-> NoCall, ret |-> <<>>]
  ELSE LET given == MapGet(params, "arguments") IN
  IF given.t # "map"
    THEN [out |-> sendError(request.ID, InvalidParams, "Invalid arguments", Nil),
          call |-> NoCall, ret |-> <<>>]
  ELSE LET e == executeTool(name.s, given)
       IN IF e.call = NoCall
            THEN [out |-> toolCallResponse(request.ID, "", e.err), call |-> NoCall,
                  ret |-> <<Returned("", e.err)>>]
            ELSE [out |-> <<>>, call |-> e.call, ret |-> <<>>]

\* handleToolCall up to the client call of executeTool: the lines written,
\* the call made (NoCall when it returns without one) and what executeTool
\* returned when it made none.
handleToolCall(request) ==
  LET params == request.Params IN
  IF params.t # "map"
    THEN [out |-> sendError(request.ID, InvalidParams, "Invalid params", Nil),
          call |-> NoCall, ret |-> <<>>]
  ELSE LET name == MapGet(params, "name") IN
  IF name.t # "string"
    THEN [out |-> sendError(request.ID, InvalidParams, "Missing tool name", Nil),
          call |-> NoCall, ret |-> <<>>]
  ELSE LET given == MapGet(params, "arguments")
           arguments == IF given.t = "map" THEN given ELSE GoMap(<<>>)
           e == executeTool(name.s, arguments)
       IN IF e.call = NoCall
            THEN [out |-> toolCallResponse(request.ID, "", e.err), call |-> NoCall,
                  ret |-> <<Returned("", e.err)>>]
            ELSE [out |-> <<>>, call |-> e.call, ret |-> <<>>]

\* handleRequest matching the method whatever its case.
FoldCase(method) == IF method = "Tools/List" THEN "tools/list" ELSE method

handleRequestFoldCase(request) ==
  CASE FoldCase(request.Method) = "initialize" ->
         [out |-> handleInitialize(request), call |-> NoCall, ret |-> <<>>]
    [] FoldCase(request.Method) = "tools/list" ->
         [out |-> handleToolsList(request), call |-> NoCall, ret |-> <<>>]
    [] FoldCase(request.Method) = "tools/call" -> handleToolCall(request)
    [] OTHER ->
         [out |-> sendError(request.ID, MethodNotFound, "Method not found", Nil),
          call |-> NoCall, ret |-> <<>>]

\* handleRequest serving tools/list and tools/call only after an initialize
\* request has been received.
handleRequestInitializedOnly(request) ==
  IF /\ request.Method \in {"tools/list", "tools/call"}
     /\ ~\E i \in 1..Len(stdin) : Unmarshal(stdin[i]).request.Method = "initialize"
    THEN [out |-> sendError(request.ID, -32002, "Server not initialized", Nil),
          call |-> NoCall, ret |-> <<>>]
  ELSE CASE request.Method = "initialize" ->
              [out |-> handleInitialize(request), call |-> NoCall, ret |-> <<>>]
         [] request.Method = "tools/list" ->
              [out |-> handleToolsList(request), call |-> NoCall, ret |-> <<>>]
         [] request.Method = "tools/call" -> handleToolCall(request)
         [] OTHER ->
              [out |-> sendError(request.ID, MethodNotFound, "Method not found", Nil),
               call |-> NoCall, ret |-> <<>>]

handleRequest(request) ==
  CASE request.Method = "initialize" ->
         [out |-> handleInitialize(request), call |-> NoCall, ret |-> <<>>]
    [] request.Method = "tools/list" ->
         [out |-> handleToolsList(request), call |-> NoCall, ret |-> <<>>]
    [] request.Method = "tools/call" -> handleToolCall(request)
    [] OTHER ->
         [out |-> sendError(request.ID, MethodNotFound, "Method not found", Nil),
          call |-> NoCall, ret |-> <<>>]

(***************************************************************************)
(* Input lines.  A line is empty, only white space, longer than the        *)
(* scanner's buffer, text that is not valid JSON, or a JSON value; top is  *)
(* the value its text spells (for text that is not valid JSON, the value   *)
(* it would spell without its syntax error).                               *)
(***************************************************************************)
Line(form, top) == [form |-> form, top |-> top]

NoId == <<>>
Id(v) == <<Member("id", v)>>
NoParams == <<>>
Params(v) == <<Member("params", v)>>

Request(id, method, params) ==
  JObj(<<Member("jsonrpc", JStr("2.0"))>> \o id \o <<Member("method", JStr(method))>>
       \o params)

ToolCall(id, name, arguments) ==
  Request(id, "tools/call",
          Params(JObj(<<Member("name", JStr(name))>> \o arguments)))

Arguments(members) == <<Member("arguments", JObj(members))>>

Ids == {NoId, Id(JNull), Id(JNum("1")), Id(JStr("a")), Id(JNum(BigLit))}
FewIds == {NoId, Id(JNum("1"))}

BlankLines == {Line("empty", JNull), Line("spaces", JNull)}

TooLongLines == {Line("toolong", Request(Id(JNum("1")), "tools/list", NoParams))}

\* Lines json.Unmarshal rejects: text that is not JSON, a JSON value that is
\* no object, an object whose method is a number.
MalformedLines ==
  {Line("badjson", Request(id, "tools/list", NoParams)) : id \in FewIds}
    \cup {Line("json", JArr(<<JNum("1")>>))}
    \cup {Line("json", JObj(id \o <<Member("method", JNum("1"))>>)) : id \in FewIds}

OtherMethods == {"", "Tools/List", "notifications/initialized", "resources/list"}

MethodLines ==
  {Line("json", Request(id, "tools/list", NoParams)) : id \in Ids}
    \cup {Line("json", Request(id, "initialize", Params(JObj(<<>>)))) : id \in FewIds}
    \cup {Line("json", Request(Id(JStr("a")), "initialize",
                   Params(JObj(<<Member("protocolVersion", JStr("2025-03-26"))>>))))}
    \cup {Line("json", Request(id, m, NoParams)) : id \in FewIds, m \in OtherMethods}
    \cup {Line("json", JNull), Line("json", JObj(Id(JNum("2")))),
          Line("json", JObj(<<Member("jsonrpc", JStr("1.0")), Member("id", JNum("1")),
                              Member("method", JStr("tools/list"))>>))}

\* tools/call with params that are not an object or have no string name.
BadParams ==
  {NoParams, Params(JStr("x")), Params(JObj(<<>>)),
   Params(JObj(<<Member("name", JNum("1"))>>))}

UnknownTools == {"", "nosuch_tool", "GITHUB_GET_ISSUE"}

ToolCallLines ==
  {Line("json", Request(Id(JNum("1")), "tools/call", p)) : p \in BadParams}
    \cup {Line("json", ToolCall(id, n, NoParams)) : id \in FewIds, n \in UnknownTools}
    \cup {Line("json", ToolCall(Id(JNum("1")), "github_get_issue",
                  Arguments(<<Member("owner", JStr("o")), Member("repo", JStr("r")),
                              Member("number", JNum("42"))>>))),
          Line("json", ToolCall(Id(JStr("a")), "jira_get_ticket",
                  Arguments(<<Member("ticketID", JStr("PROJ-1"))>>))),
          Line("json", ToolCall(Id(JNum("1")), "jira_get_ticket",
                  Arguments(<<Member("ticketID", JStr(""))>>))),
          Line("json", ToolCall(NoId, "notion_get_page", NoParams)),
          Line("json", ToolCall(Id(JNum(BigLit)), "notion_search_pages",
                  <<Member("arguments", JStr("x"))>>))}

Lines == BlankLines \cup TooLongLines \cup MalformedLines \cup MethodLines
           \cup ToolCallLines

\* Every tool of the catalog, called with each of its arguments given with
\* the type its handler asserts ("good"), given with another type ("wrong")
\* or left out ("absent").
GoodValue(assert) ==
  CASE assert = "string" -> JStr("x")
    [] assert = "float64" -> JNum("42")
    [] assert = "bool" -> JBool(TRUE)
    [] assert = "array" -> JArr(<<JStr("copilot"), JNum("1")>>)

WrongValue(assert) ==
  CASE assert = "string" -> JNum("1")
    [] assert = "float64" -> JStr("42")
    [] assert = "bool" -> JStr("true")
    [] assert = "array" -> JStr("copilot")

RECURSIVE ArgMembers(_, _, _)
ArgMembers(params, kinds, i) ==
  IF i > Len(params) THEN <<>>
  ELSE (IF kinds[i] = "absent" THEN <<>>
        ELSE <<Member(params[i].key,
                      IF kinds[i] = "good" THEN GoodValue(params[i].assert)
                      ELSE WrongValue(params[i].assert))>>)
       \o ArgMembers(params, kinds, i + 1)

\* All arguments alike, or all good but one that is left out.
ArgKinds(n) ==
  {[i \in 1..n |-> k] : k \in {"good", "wrong", "absent"}}
    \cup {[i \in 1..n |-> IF i = j THEN "absent" ELSE "good"] : j \in 1..n}

\* An arguments member that is absent or no JSON object.
NoObjectArguments ==
  {NoParams, <<Member("arguments", JStr("x"))>>, <<Member("arguments", JNull)>>,
   <<Member("arguments", JArr(<<JStr("owner")>>))>>}

\* Tool names for the methods of GithubClient that executeTool has no case
\* for.
UndispatchedTools == {"github_run_failed_jobs", "github_create_commit", "github_push"}

ToolLines ==
  UNION {{Line("json", ToolCall(Id(JNum("1")), name,
                    Arguments(ArgMembers(ToolCase(name).params, kinds, 1)))) :
            kinds \in ArgKinds(Len(ToolCase(name).params))} : name \in ToolNames}
    \cup {Line("json", ToolCall(Id(JNum("1")), "notion_get_page",
                  Arguments(<<Member("url", JStr(u))>>))) : u \in BadURLs}
    \cup {Line("json", ToolCall(Id(JNum("1")), n,
                  Arguments(<<Member("owner", JStr("x")), Member("repo", JStr("x"))>>))) :
            n \in UndispatchedTools}
    \cup {Line("json", ToolCall(Id(JNum("1")), n, a)) :
            n \in {"github_assign_copilot", "github_create_repository"},
            a \in NoObjectArguments}
    \cup {Line("json", ToolCall(Id(JNum("1")), "jira_get_ticket",
                  Arguments(<<Member("ticketID", JStr(""))>>))),
          Line("json", ToolCall(Id(JNum("1")), "jira_get_ticket", NoParams)),
          Line("json", ToolCall(Id(JNum("1")), "nosuch_tool", NoParams)),
          Line("json", Request(Id(JNum("1")), "tools/call", NoParams)),
          Line("json", Request(Id(JNum("1")), "initialize", Params(JObj(<<>>)))),
          Line("json", Request(Id(JNum("1")), "tools/list", NoParams)),
          Line("json", Request(Id(JNum("1")), "resources/list", NoParams)),
          Line("badjson", ToolCall(Id(JNum("1")), "github_get_issue", NoParams)),
          Line("json", ToolCall(Id(JNum("1")), "notion_update_page",
                  Arguments(<<Member("pageID", JStr("abc123")),
                              Member("title", JStr("New title")),
                              Member("content", JStr("New text"))>>))),
          Line("json", ToolCall(Id(JNum("1")), "notion_get_page",
                  Arguments(<<Member("url",
                                JStr("https://www.notion.so/Page-abc123"))>>)))}

\* A few lines of every kind, for runs of more lines.
HistoryLines ==
  {Line("spaces", JNull),
   Line("toolong", Request(Id(JNum("1")), "tools/list", NoParams)),
   Line("badjson", Request(Id(JNum("1")), "tools/list", NoParams)),
   Line("json", Request(Id(JNum("1")), "initialize", Params(JObj(<<>>)))),
   Line("json", Request(Id(JNum("2")), "tools/list", NoParams)),
   Line("json", Request(Id(JNum("2")), "resources/list", NoParams)),
   Line("json", ToolCall(Id(JNum("2")), "nosuch_tool", NoParams)),
   Line("json", ToolCall(Id(JNum("2")), "github_get_issue",
           Arguments(<<Member("owner", JStr("o")), Member("repo", JStr("r")),
                       Member("number", JNum("42"))>>))),
   Line("json", ToolCall(Id(JNum("2")), "jira_get_ticket",
           Arguments(<<Member("ticketID", JStr("PROJ-1"))>>)))}

\* The lines of the runs that are followed from the start of the process.
MainLines ==
  {Line("json", Request(Id(JNum("1")), "tools/list", NoParams)),
   Line("json", ToolCall(Id(JNum("2")), "jira_get_ticket",
           Arguments(<<Member("ticketID", JStr("PROJ-1"))>>)))}

(***************************************************************************)
(* What the process finds when it starts.                                  *)
(***************************************************************************)
Environ(base, local, env) == [base |-> base, local |-> local, env |-> env]

File(doc) == [state |-> "ok", doc |-> doc]
AbsentFile == [state |-> "absent", doc |-> [k \in {} |-> ""]]
MalformedFile == [state |-> "malformed", doc |-> [k \in {} |-> ""]]

Keys(fs) == {YamlKey[f] : f \in fs}
Vars(fs) == {EnvVar[f] : f \in fs}

\* A config.yml that sets every field, no local.yml, no variable.
FullEnviron ==
  Environ(File([notion_token |-> "nt", github_token |-> "gt",
                jira_token |-> "jt", jira_url |-> "https://jira.example",
                jira_username |-> "ju"]),
          AbsentFile, [k \in {} |-> ""])

\* Each of the three sources sets any of the fields, each source to a value
\* of its own; a file may be absent or malformed, and local.yml or a
\* variable may give a field the empty string.
ConfigEnvirons ==
  {Environ(File([k \in Keys(b) |-> "base"]), File([k \in Keys(l) |-> "local"]),
           [k \in Vars(e) |-> "env"]) :
     b \in SUBSET Fields, l \in SUBSET Fields, e \in SUBSET Fields}
    \cup {Environ(base, local, [k \in Vars(e) |-> v]) :
            base \in {AbsentFile, MalformedFile, File([k \in Keys(Fields) |-> "base"])},
            local \in {AbsentFile, MalformedFile, File([k \in Keys({"JiraURL"}) |-> ""])},
            e \in {{}, {"JiraToken"}}, v \in {"", "env"}}

\* config.yml sets any of the fields, JIRA_URL may be set.
MainEnvirons ==
  {Environ(File([k \in Keys(b) |-> IF k = "jira_url" THEN "https://jira.example/"
                                   ELSE "secret"]),
           AbsentFile, [k \in Vars(e) |-> "https://jira.example"]) :
     b \in SUBSET Fields, e \in {{}, {"JiraURL"}}}
    \cup {Environ(MalformedFile, AbsentFile, [k \in {} |-> ""])}

\* The blank test without TrimSpace: only the empty line is blank.
IsBlankEmptyOnly(line) == line.form = "empty"

\* strings.TrimSpace(line) == ""
IsBlank(line) == line.form \in {"empty", "spaces"}

vars == <<pc, stdin, closed, scanErr, stdout, origin, calls, returned,
          stderr, environ, cfg, clients>>

\* What the start of the process sets, and the loop leaves alone.
startup == <<environ, cfg, clients>>

\* The line Start is working on.
cur == stdin[Len(stdin)]

NoScanErr == [t |-> "nil"]
ErrTooLong == [t |-> "error", msg |-> "bufio.Scanner: token too long"]

\* A line of the log package or of the Go runtime.
LogLine(text) == [log |-> text]

\* log.Println("Starting MCP server..."), in main and again in Start.
StartingLog == LogLine("Starting MCP server...")

\* The log package writes to standard error.
Log(lines) == stderr' = stderr \o lines

\* Nothing read, nothing written.
Untouched ==
  /\ stdin = <<>>
  /\ closed = FALSE
  /\ scanErr = NoScanErr
  /\ returned = <<>>
  /\ stdout = <<>>
  /\ origin = <<>>
  /\ calls = <<>>

\* The process at Start, with the server main has constructed where
\* config.yml sets every field.
Init ==
  /\ pc = "scan"
  /\ Untouched
  /\ stderr = <<StartingLog, StartingLog>>
  /\ environ = FullEnviron
  /\ cfg = LoadConfig(FullEnviron).cfg
  /\ clients = MCPServer(NewGithubClient(cfg.GithubToken),
                         NewJiraClient(cfg.JiraURL, cfg.JiraUsername,
                                       cfg.JiraToken).client,
                         NewNotionClient(cfg.NotionToken))

\* The process at the first line of main.
AtMain(e) ==
  /\ pc = "main"
  /\ Untouched
  /\ stderr = <<>>
  /\ environ = e
  /\ cfg = Nil
  /\ clients = Nil

InitConfig == \E e \in ConfigEnvirons : AtMain(e)

InitMain == \E e \in MainEnvirons : AtMain(e)

\* main: LoadConfig, and log.Fatalf on its error.
mainLoadConfig ==
  /\ pc = "main"
  /\ LET l == LoadConfig(environ) IN
       /\ pc' = IF l.err # NilErr THEN "fatal" ELSE "clients"
       /\ cfg' = l.cfg
       /\ Log(IF l.err # NilErr
                THEN <<LogLine("Error loading config: " \o l.err.msg)>>
                ELSE <<>>)
  /\ UNCHANGED <<stdin, closed, scanErr, stdout, origin, calls, returned,
                 environ, clients>>

\* main: the three constructors, log.Fatalf on the error of NewJiraClient,
\* and the call of Start on the server.
mainNewClients ==
  /\ pc = "clients"
  /\ LET github == NewGithubClient(cfg.GithubToken)
         jira == NewJiraClient(cfg.JiraURL, cfg.JiraUsername, cfg.JiraToken)
         notion == NewNotionClient(cfg.NotionToken)
     IN /\ pc' = IF jira.panic THEN "panic"
                 ELSE IF jira.err # NilErr THEN "fatal"
                 ELSE "scan"
        /\ clients' = IF jira.panic \/ jira.err # NilErr THEN clients
                      ELSE MCPServer(github, jira.client, notion)
        /\ Log(IF jira.panic
                 THEN <<LogLine("panic: runtime error: index out of range [-1]")>>
               ELSE IF jira.err # NilErr
                 THEN <<LogLine("Error creating Jira client: " \o jira.err.msg)>>
               ELSE <<StartingLog, StartingLog>>)
  /\ UNCHANGED <<stdin, closed, scanErr, stdout, origin, calls, returned,
                 environ, cfg>>

\* The exit status of the process once it has ended: 0 when main returns,
\* 1 from log.Fatalf, 2 from a panic.
ExitStatus ==
  CASE pc = "done" -> 0
    [] pc = "fatal" -> 1
    [] pc = "panic" -> 2

\* Writing lines to standard output, for the line being worked on.
Write(out) ==
  /\ stdout' = stdout \o out
  /\ origin' = origin \o [i \in 1..Len(out) |-> Len(stdin)]

\* Scan passing over a line longer than the buffer as over a blank line.
ScanSkipsTooLong(line, max) ==
  /\ pc = "scan"
  /\ Len(stdin) < max
  /\ stdin' = Append(stdin, line)
  /\ pc' = IF line.form = "toolong" \/ IsBlank(line) THEN "scan" ELSE "handle"
  /\ UNCHANGED <<scanErr, closed, stdout, origin, calls, returned, stderr,
                 startup>>

\* Scan with the error of the scanner printed on standard output.
ScanPrintsError(line, max) ==
  /\ pc = "scan"
  /\ Len(stdin) < max
  /\ stdin' = Append(stdin, line)
  /\ pc' = IF line.form = "toolong" THEN "done"
           ELSE IF IsBlank(line) THEN "scan"
           ELSE "handle"
  /\ scanErr' = IF line.form = "toolong" THEN ErrTooLong ELSE scanErr
  /\ IF line.form = "toolong"
       THEN /\ stdout' = Append(stdout,
                            LogLine("Error reading from stdin: " \o ErrTooLong.msg))
            /\ origin' = Append(origin, Len(stdin) + 1)
       ELSE UNCHANGED <<stdout, origin>>
  /\ UNCHANGED <<closed, calls, returned, stderr, startup>>

\* scanner.Scan() delivers a line, of an input of at most max lines: a
\* line longer than the buffer ends the loop, a blank line is skipped, any
\* other line is taken up.
Scan(line, max) ==
  /\ pc = "scan"
  /\ Len(stdin) < max
  /\ stdin' = Append(stdin, line)
  /\ pc' = IF line.form = "toolong" THEN "done"
           ELSE IF IsBlank(line) THEN "scan"
           ELSE "handle"
  /\ scanErr' = IF line.form = "toolong" THEN ErrTooLong ELSE scanErr
  /\ Log(IF line.form = "toolong"
           THEN <<LogLine("Error reading from stdin: " \o ErrTooLong.msg)>>
           ELSE <<>>)
  /\ UNCHANGED <<closed, stdout, origin, calls, returned, startup>>

ScanLine(line) == Scan(line, MaxLines)

\* scanner.Scan() finds the end of the input: Start returns.
ScanEOF ==
  /\ pc = "scan"
  /\ closed' = TRUE
  /\ pc' = "done"
  /\ UNCHANGED <<stdin, scanErr, stdout, origin, calls, returned, stderr,
                 startup>>

\* The loop body returning from Start on a line it cannot parse.
HandleLineReturnsOnParseError ==
  /\ pc = "handle"
  /\ \E u \in {Unmarshal(cur)} :
     IF u.err
       THEN /\ Write(sendError(u.request.ID, ParseError, "Parse error", Nil))
            /\ pc' = "done"
            /\ UNCHANGED <<calls, returned>>
       ELSE \E h \in {handleRequest(u.request)} :
            IF h.call = NoCall
              THEN /\ Write(h.out)
                   /\ pc' = "scan"
                   /\ returned' = returned \o h.ret
                   /\ UNCHANGED calls
              ELSE \E invalid \in {ClientValidation(h.call)} :
                   /\ calls' = Append(calls, [line |-> Len(stdin), call |-> h.call,
                                              requests |-> UpstreamRequests(h.call),
                                              carries |-> Forwarded(h.call)])
                   /\ IF invalid # NilErr
                        THEN /\ Write(toolCallResponse(u.request.ID, "", invalid))
                             /\ returned' = Append(returned, Returned("", invalid))
                             /\ pc' = "scan"
                        ELSE /\ pc' = "upstream"
                             /\ UNCHANGED <<stdout, origin, returned>>
  /\ UNCHANGED <<stdin, closed, scanErr, stderr, startup>>

\* The loop body on a line that is not blank: a parse error is answered;
\* a request is dispatched, and either answered or, when its tool sends a
\* request upstream, left waiting for the answer.
HandleLine ==
  /\ pc = "handle"
  /\ \E u \in {Unmarshal(cur)} :
     IF u.err
       THEN /\ Write(sendError(u.request.ID, ParseError, "Parse error", Nil))
            /\ pc' = "scan"
            /\ UNCHANGED <<calls, returned>>
       ELSE \E h \in {handleRequest(u.request)} :
            IF h.call = NoCall
              THEN /\ Write(h.out)
                   /\ pc' = "scan"
                   /\ returned' = returned \o h.ret
                   /\ UNCHANGED calls
              ELSE \E invalid \in {ClientValidation(h.call)} :
                   /\ calls' = Append(calls, [line |-> Len(stdin), call |-> h.call,
                                              requests |-> UpstreamRequests(h.call),
                                              carries |-> Forwarded(h.call)])
                   /\ IF invalid # NilErr
                        THEN /\ Write(toolCallResponse(u.request.ID, "", invalid))
                             /\ returned' = Append(returned, Returned("", invalid))
                             /\ pc' = "scan"
                        ELSE /\ pc' = "upstream"
                             /\ UNCHANGED <<stdout, origin, returned>>
  /\ UNCHANGED <<stdin, closed, scanErr, stderr, startup>>

\* The upstream service answers, the client method returns and
\* handleToolCall writes the tool's result.
UpstreamReturn(outcome) ==
  /\ pc = "upstream"
  /\ Write(toolCallResponse(Unmarshal(cur).request.ID, outcome.result, outcome.err))
  /\ returned' = Append(returned, Returned(outcome.result, outcome.err))
  /\ pc' = "scan"
  /\ UNCHANGED <<stdin, closed, scanErr, calls, stderr, startup>>

\* The http.Client of the handle gives the request up after its Timeout:
\* the client method returns the error and handleToolCall writes it.
ClientTimeout ==
  /\ pc = "upstream"
  /\ clients[calls[Len(calls)].call.client].Timeout > 0
  /\ Write(toolCallResponse(Unmarshal(cur).request.ID, "", TimeoutErr))
  /\ returned' = Append(returned, Returned("", TimeoutErr))
  /\ pc' = "scan"
  /\ UNCHANGED <<stdin, closed, scanErr, calls, stderr, startup>>

Next ==
  \/ \E line \in Lines : ScanLine(line)
  \/ ScanEOF
  \/ HandleLine
  \/ \E outcome \in UpstreamOutcomes : UpstreamReturn(outcome)
  \/ ClientTimeout

Spec == Init /\ [][Next]_vars

\* The server, given calls of every tool.
NextTools ==
  \/ \E line \in ToolLines : Scan(line, MaxToolLines)
  \/ ScanEOF
  \/ HandleLine
  \/ \E outcome \in UpstreamOutcomes : UpstreamReturn(outcome)
  \/ ClientTimeout

SpecTools == Init /\ [][NextTools]_vars

\* The server, given longer runs of fewer lines.
NextHistory ==
  \/ \E line \in HistoryLines : Scan(line, MaxHistoryLines)
  \/ ScanEOF
  \/ HandleLine
  \/ \E outcome \in UpstreamOutcomes : UpstreamReturn(outcome)
  \/ ClientTimeout

SpecHistory == Init /\ [][NextHistory]_vars

\* The scanner comes to the next line or to the end of the input, and the
\* upstream service answers.
ScanStep == (\E line \in HistoryLines : Scan(line, MaxLiveLines)) \/ ScanEOF
UpstreamStep == \E outcome \in UpstreamOutcomes : UpstreamReturn(outcome)

NextLive ==
  \/ ScanStep
  \/ HandleLine
  \/ UpstreamStep
  \/ ClientTimeout

\* The same runs where the process keeps running: the scanner returns, the
\* loop body runs, a timeout that is set fires.  The upstream service is
\* free never to answer.
SpecSilent ==
  Init /\ [][NextLive]_vars
    /\ WF_vars(ScanStep) /\ WF_vars(HandleLine) /\ WF_vars(ClientTimeout)

\* The same, with an upstream service that answers every request.
SpecFair ==
  Init /\ [][NextLive]_vars
    /\ WF_vars(ScanStep) /\ WF_vars(HandleLine) /\ WF_vars(ClientTimeout)
    /\ WF_vars(UpstreamStep)

\* LoadConfig, in every environment.
NextConfig == mainLoadConfig

SpecConfig == InitConfig /\ [][NextConfig]_vars

\* The process from its start.
NextMain ==
  \/ mainLoadConfig
  \/ mainNewClients
  \/ \E line \in MainLines : Scan(line, MaxMainLines)
  \/ ScanEOF
  \/ HandleLine
  \/ \E outcome \in UpstreamOutcomes : UpstreamReturn(outcome)
  \/ ClientTimeout

SpecMain == InitMain /\ [][NextMain]_vars

(***************************************************************************)
(* The vocabulary of the properties, read off the text of a line and off   *)
(* the lines written.                                                      *)
(***************************************************************************)
LineBlank(line) == line.form \in {"empty", "spaces"}

\* Member k of the JSON object a line spells; Absent when it has none.
TextMember(line, k) ==
  IF line.top.t = "object" THEN JGet(line.top.members, k) ELSE Absent

\* A line that is not blank and cannot be decoded into a request.
Undecodable(line) ==
  \/ line.form = "badjson"
  \/ /\ line.form = "json"
     /\ \/ line.top.t \notin {"object", "null"}
        \/ \E k \in {"jsonrpc", "method"} :
             TextMember(line, k).t \notin {"absent", "null", "string"}

Decoded(line) == line.form = "json" /\ ~Undecodable(line)

\* The id and the method of the line's text.
TextId(line) ==
  LET v == TextMember(line, "id") IN IF v = Absent THEN JNull ELSE v

TextMethod(line) ==
  LET v == TextMember(line, "method") IN IF v.t = "string" THEN v.s ELSE ""

\* The params of the line's text, and the tool name in them.
TextParams(line) == TextMember(line, "params")

TextToolName(line) ==
  IF TextParams(line).t = "object"
    THEN JGet(TextParams(line).members, "name")
    ELSE Absent

IsToolCall(line) == Decoded(line) /\ TextMethod(line) = "tools/call"

NamedToolCall(line) == IsToolCall(line) /\ TextToolName(line).t = "string"

\* Line i has been taken up by the loop body, and the loop body is through
\* with it.
Taken(i) == ~LineBlank(stdin[i]) /\ stdin[i].form # "toolong"
Through(i) == Taken(i) /\ (i < Len(stdin) \/ pc \in {"scan", "done"})

ResponsesTo(i) == {k \in 1..Len(stdout) : origin[k] = i}
CallsFor(i) == {c \in 1..Len(calls) : calls[c].line = i}
ReturnsFor(i) == {r \in 1..Len(returned) : returned[r].line = i}

HasResult(r) == "result" \in DOMAIN r
HasError(r) == "error" \in DOMAIN r
ErrorWith(r, code) == HasError(r) /\ ~HasResult(r) /\ r.error.code = code

\* A success envelope whose single content block is flagged as an error and
\* holds text.
ErrorBlock(r, text) ==
  /\ HasResult(r) /\ ~HasError(r)
  /\ "isError" \in DOMAIN r.result /\ r.result.isError = TRUE
  /\ r.result.content = <<[type |-> "text", text |-> text]>>

\* The id a response to the line carries: null for a line that is not valid
\* JSON, the nearest float64 for a number that is none, else the id of the
\* text.
EchoedId(line) ==
  IF line.form = "badjson" THEN JNull
  ELSE IF TextId(line) = JNum(BigLit) THEN JNum(RoundedBigLit)
  ELSE TextId(line)

\* A tools/call whose string tool name is not in the catalog.
UnknownToolCall(line) ==
  NamedToolCall(line) /\ TextToolName(line).s \notin ToolNames

\* A tools/call whose object params have no name.
NamelessToolCall(line) ==
  IsToolCall(line) /\ TextParams(line).t = "object" /\ TextToolName(line) = Absent

\* A decoded request with a method the server does not know.
OtherMethod(line) ==
  Decoded(line) /\ TextMethod(line) \notin {"initialize", "tools/list", "tools/call"}

\* The answers to tools/list, and the tool names of the source in the order
\* of the catalog.
IsToolsList(line) == Decoded(line) /\ TextMethod(line) = "tools/list"

ListAnswers == {k \in 1..Len(stdout) : IsToolsList(stdin[origin[k]])}

NamesOf(tools) == [i \in 1..Len(tools) |-> tools[i].name]

CatalogNameList ==
  <<"github_get_pull_request", "github_get_pull_request_diff",
    "github_create_issue", "github_create_pull_request", "github_get_issue",
    "github_list_branches", "github_list_commits", "github_search_repositories",
    "github_search_issues", "github_get_workflows", "github_run_workflow",
    "github_add_comment", "github_get_comments", "github_assign_copilot",
    "github_create_branch", "github_create_repository", "github_get_commit",
    "github_get_release_by_tag", "github_get_tag", "github_search_code",
    "github_search_pull_requests", "jira_get_ticket", "jira_search_tickets",
    "jira_create_ticket", "notion_search_pages", "notion_get_page",
    "notion_get_database", "notion_create_page", "notion_create_database",
    "notion_update_page", "notion_update_database">>

\* The indices of the lines of stdin that are not blank, in order.
RECURSIVE NonBlankUpTo(_)
NonBlankUpTo(n) ==
  IF n = 0 THEN <<>>
  ELSE IF LineBlank(stdin[n]) THEN NonBlankUpTo(n - 1)
  ELSE Append(NonBlankUpTo(n - 1), n)

(***************************************************************************)
(* C1.  The k-th line written to standard output answers the k-th input    *)
(* line that is not blank, and it is written before the next line is read: *)
(* at most one line is taken up and not yet answered, and none when the    *)
(* scanner is asked for the next line.  Blank lines get no response.       *)
(***************************************************************************)
C1_KthResponseAnswersKthLine ==
  LET nonblank == NonBlankUpTo(Len(stdin))
      taken == Cardinality({i \in 1..Len(stdin) : Taken(i)})
  IN /\ Len(stdout) <= Len(nonblank)
     /\ \A k \in 1..Len(stdout) :
          /\ origin[k] = nonblank[k]
          /\ ~LineBlank(stdin[origin[k]])
     /\ taken - Len(stdout) \in {0, 1}
     /\ pc \in {"scan", "done"} => Len(stdout) = taken

C1_Witness ==
  /\ Len(stdin) = 2 /\ LineBlank(stdin[1]) /\ Decoded(stdin[2])
  /\ Len(stdout) = 1 /\ origin[1] = 2
  /\ pc = "scan"

(***************************************************************************)
(* C2.  A line that is not blank and cannot be decoded gets exactly one    *)
(* response, the error -32700, no service client is called for it, and the *)
(* loop does not end on it: Start returns only when the input has ended or *)
(* the scanner has failed.                                                 *)
(***************************************************************************)
C2_ParseErrorAnsweredOnce ==
  /\ \A i \in 1..Len(stdin) :
       (Undecodable(stdin[i]) /\ Through(i)) =>
         /\ Cardinality(ResponsesTo(i)) = 1
         /\ \A k \in ResponsesTo(i) : ErrorWith(stdout[k], -32700)
         /\ CallsFor(i) = {}
  /\ pc = "done" => (closed \/ scanErr # NoScanErr)

C2_Witness ==
  /\ Len(stdin) = 2 /\ Undecodable(stdin[1]) /\ Decoded(stdin[2])
  /\ Len(stdout) = 2
  /\ ErrorWith(stdout[1], -32700)
  /\ HasResult(stdout[2])

(***************************************************************************)
(* C3.  As claimed: the id of every response equals the id in the text of  *)
(* the line that caused it (null when the text has none).                  *)
(***************************************************************************)
C3_IdEqualsTextId ==
  \A k \in 1..Len(stdout) : stdout[k].id = TextId(stdin[origin[k]])

(***************************************************************************)
(* C3, amended.  The id of every response is the id in the text of its     *)
(* line (null when the text has none), except that a line that is not      *)
(* valid JSON is answered with id null, and a number that is no float64    *)
(* comes back as the nearest float64.                                      *)
(***************************************************************************)
C3_IdEchoedAsDecoded ==
  \A k \in 1..Len(stdout) : stdout[k].id = EchoedId(stdin[origin[k]])

C3_Witness ==
  \E j, k \in 1..Len(stdout) :
    /\ stdin[origin[j]].form = "badjson"
    /\ TextId(stdin[origin[j]]) = JNum("1")
    /\ stdout[j].id = JNull
    /\ TextId(stdin[origin[k]]) = JStr("a")
    /\ stdout[k].id = JStr("a")

(***************************************************************************)
(* C4.  Every response has exactly one of the members result and error.    *)
(***************************************************************************)
C4_ExactlyOneOfResultError ==
  \A k \in 1..Len(stdout) : HasResult(stdout[k]) # HasError(stdout[k])

C4_Witness ==
  \E j, k \in 1..Len(stdout) :
    /\ HasResult(stdout[j]) /\ ~HasError(stdout[j])
    /\ HasError(stdout[k]) /\ ~HasResult(stdout[k])

(***************************************************************************)
(* C5.  A tools/call with object params and a string tool name is answered *)
(* with a result, never with an error member.  The result has one content  *)
(* block of type text: the returned text and no error flag when the tool   *)
(* returned no error, the error's message after "Error: " and isError true *)
(* when it returned one.                                                   *)
(***************************************************************************)
C5_ToolOutcomeInResult ==
  \A i \in 1..Len(stdin) :
    (NamedToolCall(stdin[i]) /\ Through(i)) =>
      /\ Cardinality(ResponsesTo(i)) = 1
      /\ Cardinality(ReturnsFor(i)) = 1
      /\ \A k \in ResponsesTo(i), r \in ReturnsFor(i) :
           /\ HasResult(stdout[k]) /\ ~HasError(stdout[k])
           /\ IF returned[r].err = NilErr
                THEN /\ stdout[k].result.content =
                          <<[type |-> "text", text |-> returned[r].result]>>
                     /\ "isError" \notin DOMAIN stdout[k].result
                ELSE ErrorBlock(stdout[k], "Error: " \o returned[r].err.msg)

C5_Witness ==
  /\ Len(stdout) = 2 /\ Len(calls) = 2 /\ Len(returned) = 2
  /\ calls[1].requests # <<>> /\ calls[2].requests # <<>>
  /\ returned[1].err = NilErr /\ returned[1].result # ""
  /\ returned[2].err # NilErr
  /\ "isError" \notin DOMAIN stdout[1].result
  /\ stdout[2].result.isError = TRUE

(***************************************************************************)
(* C6.  As claimed: a tools/call whose string tool name is not in the      *)
(* catalog is answered with a success envelope whose content block is      *)
(* flagged as an error and whose text is "unknown tool: <name>".           *)
(***************************************************************************)
C6_UnknownToolTextBare ==
  \A i \in 1..Len(stdin) :
    (UnknownToolCall(stdin[i]) /\ Through(i)) =>
      \A k \in ResponsesTo(i) :
        ErrorBlock(stdout[k], "unknown tool: " \o TextToolName(stdin[i]).s)

(***************************************************************************)
(* C6, amended.  Such a call is answered with one success envelope whose   *)
(* content block is flagged as an error and whose text is                  *)
(* "Error: unknown tool: <name>".                                          *)
(***************************************************************************)
C6_UnknownToolTextPrefixed ==
  \A i \in 1..Len(stdin) :
    (UnknownToolCall(stdin[i]) /\ Through(i)) =>
      /\ Cardinality(ResponsesTo(i)) = 1
      /\ \A k \in ResponsesTo(i) :
           ErrorBlock(stdout[k], "Error: unknown tool: " \o TextToolName(stdin[i]).s)

C6_Witness ==
  \E k \in 1..Len(stdout) :
    /\ UnknownToolCall(stdin[origin[k]])
    /\ TextToolName(stdin[origin[k]]).s = "nosuch_tool"
    /\ stdout[k].result.content[1].text = "Error: unknown tool: nosuch_tool"

(***************************************************************************)
(* C7.  As claimed: a tools/call with an unknown tool name, and one whose  *)
(* params have no name, are both answered with the error -32602.           *)
(***************************************************************************)
C7_UnknownOrNamelessInvalidParams ==
  \A i \in 1..Len(stdin) :
    ((UnknownToolCall(stdin[i]) \/ NamelessToolCall(stdin[i])) /\ Through(i)) =>
      \A k \in ResponsesTo(i) : ErrorWith(stdout[k], -32602)

(***************************************************************************)
(* C7, amended.  A tools/call whose params have no name is answered with   *)
(* the error -32602; one with an unknown tool name is answered with a      *)
(* result, not with an error member.                                       *)
(***************************************************************************)
C7_NamelessInvalidParamsUnknownResult ==
  \A i \in 1..Len(stdin) :
    Through(i) =>
      /\ NamelessToolCall(stdin[i]) =>
           /\ Cardinality(ResponsesTo(i)) = 1
           /\ \A k \in ResponsesTo(i) : ErrorWith(stdout[k], -32602)
      /\ UnknownToolCall(stdin[i]) =>
           /\ Cardinality(ResponsesTo(i)) = 1
           /\ \A k \in ResponsesTo(i) : HasResult(stdout[k]) /\ ~HasError(stdout[k])

C7_Witness ==
  /\ Len(stdin) = 2 /\ Len(stdout) = 2
  /\ NamelessToolCall(stdin[1]) /\ ErrorWith(stdout[1], -32602)
  /\ UnknownToolCall(stdin[2]) /\ HasResult(stdout[2])

(***************************************************************************)
(* C8.  A decoded request whose method is not exactly initialize,          *)
(* tools/list or tools/call is answered with the error -32601, once, and   *)
(* no service client is called for it.                                     *)
(***************************************************************************)
C8_OtherMethodNotFound ==
  \A i \in 1..Len(stdin) :
    (OtherMethod(stdin[i]) /\ Through(i)) =>
      /\ Cardinality(ResponsesTo(i)) = 1
      /\ \A k \in ResponsesTo(i) : ErrorWith(stdout[k], -32601)
      /\ CallsFor(i) = {}

C8_Witness ==
  /\ Len(stdin) = 2 /\ Len(stdout) = 2
  /\ TextMethod(stdin[1]) = "Tools/List" /\ ErrorWith(stdout[1], -32601)
  /\ TextMethod(stdin[2]) = "notifications/initialized"
  /\ TextMember(stdin[2], "id") = Absent
  /\ ErrorWith(stdout[2], -32601) /\ stdout[2].id = JNull

(***************************************************************************)
(* C9.  The code of every error written is -32700, -32601 or -32602.       *)
(***************************************************************************)
C9_ErrorCodesFixed ==
  \A k \in 1..Len(stdout) :
    HasError(stdout[k]) => stdout[k].error.code \in {-32700, -32601, -32602}

C9_Witness ==
  /\ Len(stdout) = 2
  /\ ErrorWith(stdout[1], -32602)
  /\ ErrorWith(stdout[2], -32700)

(***************************************************************************)
(* C10.  Every answer to tools/list carries the same catalog, the tool     *)
(* names of the source in their order, whatever was processed before it.   *)
(***************************************************************************)
C10_ToolsListSameCatalog ==
  /\ \A k \in ListAnswers :
       /\ HasResult(stdout[k])
       /\ NamesOf(stdout[k].result.tools) = CatalogNameList
  /\ \A j, k \in ListAnswers : stdout[j].result.tools = stdout[k].result.tools

C10_Witness ==
  /\ Len(stdin) = 2 /\ Len(stdout) = 2
  /\ CallsFor(1) # {}
  /\ IsToolsList(stdin[2])
  /\ Len(stdout[2].result.tools) = Len(CatalogNameList)

\* The tool names of the README, by service.
ReadmeGithubTools ==
  {"github_get_pull_request", "github_get_pull_request_diff",
   "github_create_issue", "github_create_pull_request", "github_get_issue",
   "github_list_branches", "github_list_commits", "github_search_repositories",
   "github_search_issues", "github_get_workflows", "github_run_workflow",
   "github_add_comment", "github_get_comments", "github_assign_copilot",
   "github_create_branch", "github_create_repository", "github_get_commit",
   "github_get_release_by_tag", "github_get_tag", "github_search_code",
   "github_search_pull_requests"}

ReadmeJiraTools == {"jira_get_ticket", "jira_search_tickets", "jira_create_ticket"}

ReadmeNotionTools ==
  {"notion_search_pages", "notion_get_page", "notion_get_database",
   "notion_create_page", "notion_create_database", "notion_update_page",
   "notion_update_database"}

\* The places of a list of tools whose name is in a set.
Named(tools, names) == {i \in 1..Len(tools) : tools[i].name \in names}

IsInitialize(line) == Decoded(line) /\ TextMethod(line) = "initialize"

(***************************************************************************)
(* C12.  The loop body on an initialize request, whatever its params and   *)
(* whatever came before it, writes one response, a result with protocol    *)
(* version "2024-11-05" and server name "mcp-integration-server", calls no *)
(* service client and leaves the client handles and the configuration as   *)
(* they are.                                                               *)
(***************************************************************************)
C12_InitializeFixedAnswer ==
  [][(pc = "handle" /\ IsInitialize(cur)) =>
       /\ pc' = "scan"
       /\ Len(stdout') = Len(stdout) + 1
       /\ SubSeq(stdout', 1, Len(stdout)) = stdout
       /\ LET r == stdout'[Len(stdout')] IN
            /\ HasResult(r) /\ ~HasError(r)
            /\ r.result.protocolVersion = "2024-11-05"
            /\ r.result.serverInfo.name = "mcp-integration-server"
       /\ UNCHANGED <<stdin, calls, returned, environ, cfg, clients>>]_vars

C12_Witness ==
  /\ Len(stdin) = 2 /\ Len(stdout) = 2 /\ pc = "scan"
  /\ IsInitialize(stdin[1]) /\ IsInitialize(stdin[2])
  /\ TextParams(stdin[2]) # TextParams(stdin[1])
  /\ stdout[2].result.protocolVersion = "2024-11-05"

\* What the service clients were called with for line i, and what the
\* upstream service (or the timeout of the client) answered to the requests
\* sent for it.
CallsMade(i) == {calls[c].call : c \in CallsFor(i)}
RequestsSent(i) == {calls[c].requests : c \in CallsFor(i)}
UpstreamAnswers(i) ==
  IF \E c \in CallsFor(i) : calls[c].requests # <<>>
    THEN {[result |-> returned[r].result, err |-> returned[r].err] : r \in ReturnsFor(i)}
    ELSE {}

(***************************************************************************)
(* C13.  The server keeps no state across requests: two lines with the     *)
(* same text, whatever was processed before each of them, are answered     *)
(* with the same response and lead to the same client calls and upstream   *)
(* requests, provided the upstream services answer them alike.  So         *)
(* tools/list and tools/call are served the same way before and after an   *)
(* initialize request.                                                     *)
(***************************************************************************)
C13_ResponseIndependentOfHistory ==
  \A i, j \in 1..Len(stdin) :
    (/\ Through(i) /\ Through(j)
     /\ stdin[i] = stdin[j]
     /\ UpstreamAnswers(i) = UpstreamAnswers(j))
    => /\ {stdout[k] : k \in ResponsesTo(i)} = {stdout[k] : k \in ResponsesTo(j)}
       /\ CallsMade(i) = CallsMade(j)
       /\ RequestsSent(i) = RequestsSent(j)

C13_Witness ==
  /\ Len(stdin) = 3 /\ Len(stdout) = 3 /\ pc = "scan"
  /\ IsToolCall(stdin[1]) /\ stdin[3] = stdin[1]
  /\ IsInitialize(stdin[2])
  /\ CallsFor(1) # {} /\ CallsFor(3) # {}
  /\ UpstreamAnswers(1) = UpstreamAnswers(3)
  /\ HasResult(stdout[1]) /\ stdout[3] = stdout[1]

\* The arguments of a tools/call as its text gives them, and one of them.
TextArguments(line) ==
  IF TextParams(line).t = "object"
    THEN JGet(TextParams(line).members, "arguments")
    ELSE Absent

TextArgument(line, k) ==
  IF TextArguments(line).t = "object"
    THEN JGet(TextArguments(line).members, k)
    ELSE Absent

\* A tools/call of jira_get_ticket whose ticketID is empty, absent or no
\* string.
TicketlessCall(line) ==
  /\ NamedToolCall(line) /\ TextToolName(line).s = "jira_get_ticket"
  /\ LET v == TextArgument(line, "ticketID") IN ~(v.t = "string" /\ v.s # "")

(***************************************************************************)
(* C14.  A tools/call of jira_get_ticket whose ticketID is empty, absent   *)
(* or not a string is answered with a success envelope (a result, no error *)
(* member) whose one content block is flagged isError and whose text,      *)
(* "Error: ticket ID cannot be empty", contains "ticket ID cannot be       *)
(* empty"; no request is sent upstream for it.                             *)
(***************************************************************************)
C14_EmptyTicketIdFlagged ==
  \A i \in 1..Len(stdin) :
    (Through(i) /\ TicketlessCall(stdin[i])) =>
      /\ Cardinality(ResponsesTo(i)) = 1
      /\ \A k \in ResponsesTo(i) :
           ErrorBlock(stdout[k], "Error: " \o "ticket ID cannot be empty")
      /\ \A c \in CallsFor(i) : calls[c].requests = <<>>

C14_Witness ==
  /\ Len(stdin) = 1 /\ Len(stdout) = 1 /\ pc = "scan"
  /\ TicketlessCall(stdin[1])
  /\ TextArgument(stdin[1], "ticketID").t = "number"
  /\ ErrorBlock(stdout[1], "Error: ticket ID cannot be empty")

\* A tools/call of a tool of the catalog.
KnownToolCall(line) == NamedToolCall(line) /\ TextToolName(line).s \in ToolNames

\* The loop body has worked on line i: it is through with it, or waits for
\* the upstream service.
Handled(i) == Taken(i) /\ (i < Len(stdin) \/ pc # "handle")

\* The integer a number of the text stands for.
TextInt(lit) == CASE lit = "42" -> 42 [] lit = "1" -> 1

\* What a client method is to be given for an argument whose text is v: v
\* when it has the JSON type the handler expects, else the zero value of
\* that type.
GivenOrZero(v, expected) ==
  CASE expected = "string" -> [s |-> IF v.t = "string" THEN v.s ELSE ""]
    [] expected = "float64" -> [n |-> IF v.t = "number" THEN TextInt(v.lit) ELSE 0]
    [] expected = "bool" -> [b |-> IF v.t = "bool" THEN v.b ELSE FALSE]
    [] expected = "array" ->
         [list |-> IF v.t = "array"
                     THEN [e \in 1..Len(v.elems) |->
                             IF v.elems[e].t = "string" THEN v.elems[e].s ELSE ""]
                     ELSE <<>>]

\* Line i leaves out an argument of its tool, or gives one with another
\* type than the handler expects.
JsonType(expected) ==
  CASE expected = "string" -> "string" [] expected = "float64" -> "number"
    [] expected = "bool" -> "bool" [] expected = "array" -> "array"

LacksArgument(line) ==
  \E p \in 1..Len(ToolCase(TextToolName(line).s).params) :
    LET param == ToolCase(TextToolName(line).s).params[p] IN
    TextArgument(line, param.key).t # JsonType(param.assert)

(***************************************************************************)
(* C15.  For every tool of the catalog, a tools/call reaches the client    *)
(* method of the tool whatever arguments it gives: the method is called    *)
(* once, each parameter with the argument of the text when that has the    *)
(* expected JSON type and with the zero value of the type (empty string,   *)
(* 0, false, empty list) when the argument is absent or has another type;  *)
(* the response is a result, never a protocol-level error.                 *)
(***************************************************************************)
C15_MissingArgumentsBecomeZero ==
  \A i \in 1..Len(stdin) :
    (Handled(i) /\ KnownToolCall(stdin[i])) =>
      LET case == ToolCase(TextToolName(stdin[i]).s) IN
      /\ Cardinality(CallsFor(i)) = 1
      /\ \A c \in CallsFor(i) :
           /\ calls[c].call.client = case.client
           /\ calls[c].call.method = case.method
           /\ Len(calls[c].call.args) = Len(case.params)
           /\ \A p \in 1..Len(case.params) :
                calls[c].call.args[p] =
                  GivenOrZero(TextArgument(stdin[i], case.params[p].key),
                              case.params[p].assert)
      /\ \A k \in ResponsesTo(i) : HasResult(stdout[k]) /\ ~HasError(stdout[k])

C15_Witness ==
  /\ Len(stdin) = 1 /\ Len(stdout) = 1 /\ pc = "scan"
  /\ KnownToolCall(stdin[1]) /\ TextToolName(stdin[1]).s = "github_assign_copilot"
  /\ LacksArgument(stdin[1])
  /\ TextArgument(stdin[1], "number") = Absent
  /\ TextArgument(stdin[1], "assignees").t = "array"
  /\ Cardinality(CallsFor(1)) = 1
  /\ calls[1].call.args[3] = [n |-> 0]
  /\ calls[1].call.args[4] = [list |-> <<"copilot", "">>]
  /\ HasResult(stdout[1])

\* The five credentials: the field of Config, the key of the yaml files
\* and the environment variable of each.
Credentials ==
  {[field |-> "NotionToken", key |-> "notion_token", var |-> "NOTION_TOKEN"],
   [field |-> "GithubToken", key |-> "github_token", var |-> "GITHUB_TOKEN"],
   [field |-> "JiraToken", key |-> "jira_token", var |-> "JIRA_TOKEN"],
   [field |-> "JiraURL", key |-> "jira_url", var |-> "JIRA_URL"],
   [field |-> "JiraUsername", key |-> "jira_username", var |-> "JIRA_USERNAME"]}

\* A file exists, can be parsed and sets a key.
SetsKey(file, key) == file.state = "ok" /\ key \in DOMAIN file.doc

\* LoadConfig has returned a Config.
Loaded == pc = "clients"

(***************************************************************************)
(* C16.  In the Config LoadConfig returns, each of the five credentials is *)
(* resolved on its own: it is the environment variable when that is set to *)
(* a non-empty string, else the value local.yml gives when that file       *)
(* exists and sets the key, else the value the base file gives, else       *)
(* empty.  A field only the base file sets keeps its value when a          *)
(* local.yml that does not mention it is loaded.                           *)
(***************************************************************************)
C16_LayeredPrecedence ==
  Loaded =>
    \A c \in Credentials :
      /\ cfg[c.field] =
           IF c.var \in DOMAIN environ.env /\ environ.env[c.var] # ""
             THEN environ.env[c.var]
           ELSE IF SetsKey(environ.local, c.key) THEN environ.local.doc[c.key]
           ELSE IF SetsKey(environ.base, c.key) THEN environ.base.doc[c.key]
           ELSE ""
      /\ (/\ SetsKey(environ.base, c.key)
          /\ environ.local.state = "ok" /\ ~SetsKey(environ.local, c.key)
          /\ c.var \notin DOMAIN environ.env)
         => cfg[c.field] = environ.base.doc[c.key]

C16_Witness ==
  /\ Loaded
  /\ \A c \in Credentials : SetsKey(environ.base, c.key)
  /\ SetsKey(environ.local, "github_token") /\ ~SetsKey(environ.local, "notion_token")
  /\ DOMAIN environ.env = {"JIRA_TOKEN", "GITHUB_TOKEN"}
  /\ cfg.NotionToken = "base" /\ cfg.GithubToken = "env" /\ cfg.JiraToken = "env"
  /\ SetsKey(environ.local, "jira_url") /\ cfg.JiraURL = "local"

\* main has a Config and is past the client constructors.
PastConstructors == cfg # Nil /\ pc \notin {"main", "clients"}

\* The process has ended at startup with a status that is not 0, before the
\* loop has read a line.
EndedAtStartup ==
  /\ pc \in {"fatal", "panic"} /\ ExitStatus # 0
  /\ stdin = <<>> /\ stdout = <<>>

\* The process is in the transport loop, or has left it because the input
\* has closed or reading has failed.
RunsUntilInputEnds ==
  /\ pc \in {"scan", "handle", "upstream", "done"}
  /\ pc = "done" => (closed \/ scanErr # NoScanErr) /\ ExitStatus = 0

(***************************************************************************)
(* C17, as stated.  When one of the five credentials is missing from the   *)
(* loaded configuration the process ends at startup with a non-zero exit,  *)
(* before the loop reads a request; otherwise it runs until input closes.  *)
(***************************************************************************)
C17_AnyMissingCredentialFatal ==
  PastConstructors =>
    IF \E f \in {"GithubToken", "JiraURL", "JiraUsername", "JiraToken", "NotionToken"} :
         cfg[f] = ""
      THEN EndedAtStartup
      ELSE RunsUntilInputEnds

(***************************************************************************)
(* C17.  When the Jira username or the Jira token is missing from the      *)
(* loaded configuration the process ends at startup through log.Fatalf,    *)
(* with exit status 1, before the loop reads a request; when both are      *)
(* there and the Jira URL is missing it ends at startup as well, with a    *)
(* non-zero status, through a run-time panic.  A missing GitHub token or   *)
(* Notion token does not stop the start: with the three Jira fields set    *)
(* the server runs until input closes or reading fails.                    *)
(***************************************************************************)
C17_OnlyJiraCredentialsStopStart ==
  PastConstructors =>
    IF cfg.JiraUsername = "" \/ cfg.JiraToken = ""
      THEN EndedAtStartup /\ pc = "fatal" /\ ExitStatus = 1
    ELSE IF cfg.JiraURL = ""
      THEN EndedAtStartup /\ pc = "panic"
    ELSE RunsUntilInputEnds

C17_Witness ==
  /\ PastConstructors
  /\ cfg.GithubToken = "" /\ cfg.NotionToken = ""
  /\ cfg.JiraUsername # "" /\ cfg.JiraToken # "" /\ cfg.JiraURL # ""
  /\ pc = "done" /\ closed /\ Len(stdin) = 1 /\ Len(stdout) = 1

(***************************************************************************)
(* C18, as stated.  Every client handle holds an HTTP client with a        *)
(* timeout, so a tools/call waiting for an upstream service that never     *)
(* answers is still answered in the end and the loop comes back to the     *)
(* scanner.                                                                *)
(***************************************************************************)
C18_HungCallIsAnswered ==
  (pc = "upstream") ~> (pc = "scan" /\ Cardinality(ResponsesTo(Len(stdin))) = 1)

(***************************************************************************)
(* C19.  On a finite input, with upstream services that answer every       *)
(* request, Start returns in the end and the process exits with status 0.  *)
(* The loop is left only from the scanner, when the input is exhausted or  *)
(* reading has failed: never from the loop body, whatever the outcome of   *)
(* a request (parse error, unknown method, invalid params, tool failure).  *)
(***************************************************************************)
C19_LoopEndsOnlyWithInput ==
  /\ <>(pc = "done")
  /\ [](pc = "done" => (closed \/ scanErr # NoScanErr) /\ ExitStatus = 0)
  /\ [][pc' = "done" => pc = "scan"]_vars

C19_Witness ==
  /\ pc = "done" /\ closed /\ scanErr = NoScanErr
  /\ Len(stdin) = 2 /\ Len(stdout) = 2
  /\ Undecodable(stdin[1]) /\ ErrorWith(stdout[1], ParseError)
  /\ IsToolCall(stdin[2]) /\ ErrorBlock(stdout[2], "Error: upstream request failed")

\* A call whose arguments its method rejects before it sends anything: an
\* empty ticket ID, JQL string, project key or summary, a page URL that
\* cannot be parsed.
RejectsArguments(call) ==
  \/ call.method \in {"GetTicketByID", "SearchTickets", "CreateTicket"}
       /\ call.args[1].s = ""
  \/ call.method = "CreateTicket" /\ call.args[2].s = ""
  \/ call.method = "GetPageByURL" /\ call.args[1].s = "%zz"

\* The client method of call c has returned.
MethodReturned(c) == calls[c].line < Len(stdin) \/ pc \in {"scan", "done"}

ClientOfTool(name) ==
  CASE name \in ReadmeGithubTools -> "Github"
    [] name \in ReadmeJiraTools -> "Jira"
    [] name \in ReadmeNotionTools -> "Notion"

MethodOfTool(name) ==
  CASE name = "github_get_pull_request" -> "GetPullRequest"
    [] name = "github_get_pull_request_diff" -> "GetPullRequestDiff"
    [] name = "github_create_issue" -> "CreateIssue"
    [] name = "github_create_pull_request" -> "CreatePullRequest"
    [] name = "github_get_issue" -> "GetIssue"
    [] name = "github_list_branches" -> "ListBranches"
    [] name = "github_list_commits" -> "ListCommits"
    [] name = "github_search_repositories" -> "SearchRepositories"
    [] name = "github_search_issues" -> "SearchIssues"
    [] name = "github_get_workflows" -> "GetWorkflows"
    [] name = "github_run_workflow" -> "RunWorkflow"
    [] name = "github_add_comment" -> "AddComment"
    [] name = "github_get_comments" -> "GetComments"
    [] name = "github_assign_copilot" -> "AssignCopilot"
    [] name = "github_create_branch" -> "CreateBranch"
    [] name = "github_create_repository" -> "CreateRepository"
    [] name = "github_get_commit" -> "GetCommit"
    [] name = "github_get_release_by_tag" -> "GetReleaseByTag"
    [] name = "github_get_tag" -> "GetTag"
    [] name = "github_search_code" -> "SearchCode"
    [] name = "github_search_pull_requests" -> "SearchPullRequests"
    [] name = "jira_get_ticket" -> "GetTicketByID"
    [] name = "jira_search_tickets" -> "SearchTickets"
    [] name = "jira_create_ticket" -> "CreateTicket"
    [] name = "notion_search_pages" -> "SearchPagesByTitle"
    [] name = "notion_get_page" -> "GetPageByURL"
    [] name = "notion_get_database" -> "GetDatabase"
    [] name = "notion_create_page" -> "CreatePage"
    [] name = "notion_create_database" -> "CreateDatabase"
    [] name = "notion_update_page" -> "UpdatePage"
    [] name = "notion_update_database" -> "UpdateDatabase"

(***************************************************************************)
(* C21.  A tools/call that names a tool of the catalog calls one method of *)
(* one service client, once: the method of the tool, on the GitHub client  *)
(* for a github_ tool, the Jira client for a jira_ tool and the Notion     *)
(* client for a notion_ tool.  Every other line (a line that cannot be     *)
(* parsed, initialize, tools/list, an unknown method, a tools/call with    *)
(* bad params or with a tool name that is not in the catalog) calls none.  *)
(***************************************************************************)
C21_RoutingExact ==
  \A i \in 1..Len(stdin) :
    IF KnownToolCall(stdin[i])
      THEN /\ Cardinality(CallsFor(i)) <= 1
           /\ Handled(i) => Cardinality(CallsFor(i)) = 1
           /\ \A c \in CallsFor(i) :
                /\ calls[c].call.client = ClientOfTool(TextToolName(stdin[i]).s)
                /\ calls[c].call.method = MethodOfTool(TextToolName(stdin[i]).s)
      ELSE CallsFor(i) = {}

C21_Witness ==
  /\ Len(stdin) = 1 /\ Len(stdout) = 1 /\ pc = "scan"
  /\ KnownToolCall(stdin[1])
  /\ TextToolName(stdin[1]).s = "github_search_pull_requests"
  /\ Cardinality(CallsFor(1)) = 1
  /\ calls[1].call.client = "Github" /\ calls[1].call.method = "SearchPullRequests"

\* A tools/call whose params are absent or no JSON object, and one whose
\* params are an object in which name is absent or no string.
ParamlessToolCall(line) == IsToolCall(line) /\ TextParams(line).t # "object"

NoStringNameToolCall(line) ==
  IsToolCall(line) /\ TextParams(line).t = "object" /\ TextToolName(line).t # "string"

\* A protocol-level error and nothing else, with this code and message.
ErrorSaying(r, code, message) ==
  ErrorWith(r, code) /\ r.error.message = message /\ "data" \notin DOMAIN r.error

(***************************************************************************)
(* C22.  A tools/call whose params are absent or not a JSON object is      *)
(* answered with error -32602 "Invalid params"; one whose params are an    *)
(* object but whose name is absent or not a string is answered with error  *)
(* -32602 "Missing tool name".  Either way no method of a service client   *)
(* is called, executeTool returns nothing, and one response is written.    *)
(***************************************************************************)
C22_ParamsCheckedInOrder ==
  \A i \in 1..Len(stdin) :
    /\ (ParamlessToolCall(stdin[i]) \/ NoStringNameToolCall(stdin[i])) =>
         /\ CallsFor(i) = {} /\ ReturnsFor(i) = {}
         /\ Through(i) => Cardinality(ResponsesTo(i)) = 1
    /\ ParamlessToolCall(stdin[i]) =>
         \A k \in ResponsesTo(i) : ErrorSaying(stdout[k], -32602, "Invalid params")
    /\ NoStringNameToolCall(stdin[i]) =>
         \A k \in ResponsesTo(i) : ErrorSaying(stdout[k], -32602, "Missing tool name")

C22_Witness ==
  /\ Len(stdin) = 2 /\ Len(stdout) = 2 /\ pc = "scan"
  /\ ParamlessToolCall(stdin[1]) /\ TextParams(stdin[1]).t = "string"
  /\ NoStringNameToolCall(stdin[2]) /\ TextToolName(stdin[2]).t = "number"
  /\ stdout[1].error.message = "Invalid params"
  /\ stdout[2].error.message = "Missing tool name"
  /\ calls = <<>>

\* The places of the parameters of UpdatePage that take the title and the
\* content of notion_update_page.
NewTitlePlace == 2
NewContentPlace == 3

(***************************************************************************)
(* C23, as stated.  The request a tools/call of notion_update_page sends   *)
(* upstream carries the title and the content the call supplies.           *)
(***************************************************************************)
C23_UpdatePageForwardsTitleAndContent ==
  \A i \in 1..Len(stdin) :
    (KnownToolCall(stdin[i]) /\ TextToolName(stdin[i]).s = "notion_update_page"
       /\ TextArgument(stdin[i], "title").t = "string"
       /\ TextArgument(stdin[i], "content").t = "string") =>
      \A c \in CallsFor(i) :
        calls[c].requests # <<>> =>
          /\ {NewTitlePlace, NewContentPlace} \subseteq DOMAIN calls[c].carries
          /\ calls[c].carries[NewTitlePlace].s = TextArgument(stdin[i], "title").s
          /\ calls[c].carries[NewContentPlace].s = TextArgument(stdin[i], "content").s

\* The tool names an answer to tools/list advertises.
Advertised(r) == {r.result.tools[t].name : t \in 1..Len(r.result.tools)}

\* Line i was answered by the default case of executeTool.
AnsweredUnknown(i) ==
  \E k \in ResponsesTo(i) :
    ErrorBlock(stdout[k], "Error: unknown tool: " \o TextToolName(stdin[i]).s)

(***************************************************************************)
(* C24.  The catalog and the cases of executeTool name the same tools.     *)
(* Every answer to tools/list advertises the names of the catalog; a       *)
(* tools/call that names one of them is taken by a case of executeTool (a  *)
(* client method is called, the answer is not "unknown tool"), and a       *)
(* tools/call with any other name, the names of the client methods that    *)
(* have no tool included, falls to the default case and calls nothing.     *)
(***************************************************************************)
C24_CatalogMatchesDispatch ==
  /\ \A k \in ListAnswers : Advertised(stdout[k]) = ToolNames
  /\ \A i \in 1..Len(stdin) :
       (Through(i) /\ NamedToolCall(stdin[i])) =>
         IF TextToolName(stdin[i]).s \in ToolNames
           THEN CallsFor(i) # {} /\ ~AnsweredUnknown(i)
           ELSE CallsFor(i) = {} /\ AnsweredUnknown(i)

C24_Witness ==
  /\ Len(stdin) = 1 /\ Len(stdout) = 1 /\ pc = "scan"
  /\ NamedToolCall(stdin[1]) /\ TextToolName(stdin[1]).s = "github_get_tag"
  /\ CallsFor(1) = {1} /\ ~AnsweredUnknown(1)
  /\ calls[1].requests # <<>>

\* A tools/call with a string name whose arguments are absent or no JSON
\* object.
ArgumentlessCall(line) == NamedToolCall(line) /\ TextArguments(line).t # "object"

\* The zero values of the types executeTool asserts.
ZeroValues == {[s |-> ""], [n |-> 0], [b |-> FALSE], [list |-> <<>>]}

(***************************************************************************)
(* C25.  A tools/call with a string name whose arguments member is absent  *)
(* or is not a JSON object is dispatched as if its arguments were the      *)
(* empty object: a tool of the catalog has its client method called once   *)
(* with the zero value for every parameter, and whatever the name the one  *)
(* response written is a result, never a protocol-level error.             *)
(***************************************************************************)
C25_NoArgumentsIsEmptyMapping ==
  \A i \in 1..Len(stdin) :
    (Handled(i) /\ ArgumentlessCall(stdin[i])) =>
      /\ KnownToolCall(stdin[i]) =>
           /\ Cardinality(CallsFor(i)) = 1
           /\ \A c \in CallsFor(i) :
                \A p \in DOMAIN calls[c].call.args :
                  calls[c].call.args[p] \in ZeroValues
      /\ \A k \in ResponsesTo(i) : HasResult(stdout[k]) /\ ~HasError(stdout[k])
      /\ Through(i) => Cardinality(ResponsesTo(i)) = 1

C25_Witness ==
  /\ Len(stdin) = 1 /\ Len(stdout) = 1 /\ pc = "scan"
  /\ ArgumentlessCall(stdin[1]) /\ TextArguments(stdin[1]).t = "array"
  /\ TextToolName(stdin[1]).s = "github_create_repository"
  /\ Len(calls) = 1
  /\ calls[1].call.args = <<[s |-> ""], [s |-> ""], [b |-> FALSE]>>
  /\ HasResult(stdout[1])

(***************************************************************************)
(* C26, as stated.  NewJiraClient returns a client or an error whatever    *)
(* URL, username and token it is given, an empty URL with a username and a *)
(* token included: the process never ends in a run-time panic.  The base   *)
(* URL of the client it returns ends with "/", and a URL that ends with    *)
(* "/" is stored as it is.                                                 *)
(***************************************************************************)
C26_NewJiraClientNeverPanics ==
  /\ pc # "panic"
  /\ PastConstructors /\ pc # "fatal" =>
       /\ clients.Jira.baseURL = "https://jira.example/"
       /\ cfg.JiraURL = "https://jira.example/" => clients.Jira.baseURL = cfg.JiraURL

\* Argument k of the line's text gives its parameter the empty string: it
\* is the empty string, absent, or no string.
EmptyArgument(line, k) ==
  LET v == TextArgument(line, k) IN ~(v.t = "string" /\ v.s # "")

\* The message a Jira tool is to refuse the line's arguments with; "" when
\* it is to send its request.
JiraRefusal(line) ==
  LET name == TextToolName(line).s IN
  CASE name = "jira_get_ticket" /\ EmptyArgument(line, "ticketID") ->
         "ticket ID cannot be empty"
    [] name = "jira_search_tickets" /\ EmptyArgument(line, "jql") ->
         "JQL query cannot be empty"
    [] name = "jira_create_ticket" /\ EmptyArgument(line, "projectKey") ->
         "project key cannot be empty"
    [] name = "jira_create_ticket" /\ ~EmptyArgument(line, "projectKey")
         /\ EmptyArgument(line, "summary") -> "summary cannot be empty"
    [] OTHER -> ""

(***************************************************************************)
(* C27.  GetTicketByID with an empty ticket ID, SearchTickets with an      *)
(* empty JQL string and CreateTicket with an empty project key or an empty *)
(* summary return an error and send no request upstream; CreateTicket with *)
(* both empty returns the error of the project key.  A Jira method whose   *)
(* arguments pass these checks sends its request.                          *)
(***************************************************************************)
C27_JiraValidatesBeforeNetwork ==
  \A i \in 1..Len(stdin) :
    (Handled(i) /\ NamedToolCall(stdin[i])
       /\ TextToolName(stdin[i]).s \in ReadmeJiraTools) =>
      IF JiraRefusal(stdin[i]) # ""
        THEN /\ \A c \in CallsFor(i) : calls[c].requests = <<>>
             /\ Cardinality(ReturnsFor(i)) = 1
             /\ \A r \in ReturnsFor(i) :
                  /\ returned[r].err.t = "error"
                  /\ returned[r].err.msg = JiraRefusal(stdin[i])
                  /\ returned[r].result = ""
        ELSE \A c \in CallsFor(i) : Len(calls[c].requests) = 1

C27_Witness ==
  /\ Len(stdin) = 1 /\ Len(stdout) = 1 /\ pc = "scan"
  /\ NamedToolCall(stdin[1]) /\ TextToolName(stdin[1]).s = "jira_create_ticket"
  /\ EmptyArgument(stdin[1], "projectKey") /\ EmptyArgument(stdin[1], "summary")
  /\ Len(calls) = 1 /\ calls[1].requests = <<>>
  /\ returned[1].err.msg = "project key cannot be empty"

\* A line longer than the scanner's buffer has come.
OversizeRead == \E i \in 1..Len(stdin) : stdin[i].form = "toolong"

(***************************************************************************)
(* C28.  A line longer than the scanner's buffer ends the loop: it is the  *)
(* last line read, Start has returned on the scanner's error, nothing was  *)
(* written for it, and from then on nothing is read and nothing written;   *)
(* every line taken up before it has its one response.                     *)
(***************************************************************************)
C28_OversizeLineStopsLoop ==
  /\ [](\A i \in 1..Len(stdin) :
          stdin[i].form = "toolong" =>
            /\ i = Len(stdin) /\ pc = "done" /\ scanErr = ErrTooLong
            /\ ResponsesTo(i) = {}
            /\ \A j \in 1..(i - 1) : Taken(j) => Cardinality(ResponsesTo(j)) = 1)
  /\ [][OversizeRead => stdin' = stdin /\ stdout' = stdout /\ pc' = "done"]_vars

C28_Witness ==
  /\ Len(stdin) = 3 /\ Len(stdout) = 2 /\ pc = "done"
  /\ IsToolsList(stdin[1]) /\ KnownToolCall(stdin[2]) /\ stdin[3].form = "toolong"
  /\ HasResult(stdout[1]) /\ HasResult(stdout[2])
  /\ ~closed

\* A complete response object: jsonrpc "2.0", an id, a result or an error,
\* and no other member.
IsResponseLine(r) ==
  /\ {"jsonrpc", "id"} \subseteq DOMAIN r
  /\ DOMAIN r \subseteq {"jsonrpc", "id", "result", "error"}
  /\ r.jsonrpc = "2.0"
  /\ HasResult(r) \/ HasError(r)

\* Start has been entered.
InStart == pc \in {"scan", "handle", "upstream", "done"}

(***************************************************************************)
(* C29.  Every line on standard output is one complete response object     *)
(* with jsonrpc "2.0", whatever jsonrpc the request carried or left out.   *)
(* The log lines are on standard error and not on standard output: the     *)
(* two of the start, and the one of the scanner's error when the scanner   *)
(* has failed.                                                             *)
(***************************************************************************)
C29_StdoutHoldsOnlyResponses ==
  /\ \A k \in 1..Len(stdout) : IsResponseLine(stdout[k])
  /\ \A e \in 1..Len(stderr) : DOMAIN stderr[e] = {"log"}
  /\ InStart =>
       /\ Len(stderr) >= 2
       /\ stderr[1].log = "Starting MCP server..."
       /\ stderr[2].log = "Starting MCP server..."
  /\ scanErr # NoScanErr =>
       stderr[Len(stderr)].log =
         "Error reading from stdin: bufio.Scanner: token too long"

C29_Witness ==
  /\ Len(stdin) = 2 /\ Len(stdout) = 1 /\ pc = "done"
  /\ TextMember(stdin[1], "jsonrpc") = JStr("1.0")
  /\ stdout[1].jsonrpc = "2.0" /\ HasResult(stdout[1])
  /\ stdin[2].form = "toolong"
  /\ Len(stderr) = 3

\* The property names and the required names a tool of a tools/list answer
\* declares, and the argument names the case of executeTool for it reads.
DeclaredProperties(tool) == {tool.properties[p].name : p \in 1..Len(tool.properties)}
RequiredNames(tool) == {tool.required[p] : p \in 1..Len(tool.required)}
ArgumentsRead(name) ==
  {ToolCase(name).params[p].key : p \in 1..Len(ToolCase(name).params)}

(***************************************************************************)
(* C30.  For every tool of every answer to tools/list, each name of the    *)
(* required list of its schema is one of the schema's properties, and the  *)
(* properties of the schema are the arguments the tool's case of           *)
(* executeTool reads, no more and no fewer.                                *)
(***************************************************************************)
C30_SchemaMatchesHandler ==
  \A k \in ListAnswers :
    \A t \in 1..Len(stdout[k].result.tools) :
      LET tool == stdout[k].result.tools[t] IN
      /\ RequiredNames(tool) \subseteq DeclaredProperties(tool)
      /\ DeclaredProperties(tool) = ArgumentsRead(tool.name)

C30_Witness ==
  /\ Len(stdin) = 1 /\ Len(stdout) = 1 /\ pc = "scan" /\ ListAnswers = {1}
  /\ \E t \in 1..Len(stdout[1].result.tools) :
       LET tool == stdout[1].result.tools[t] IN
       /\ tool.name = "github_create_repository"
       /\ DeclaredProperties(tool) = {"name", "description", "private"}
       /\ RequiredNames(tool) = {"name"}
       /\ ArgumentsRead(tool.name) = {"name", "description", "private"}
====
